---------------------------- MODULE Spec2Model ----------------------------
(***************************************************************************)
(* Newsletter aggregator: parser registry (sender routing), URL            *)
(* canonicalisation, canonical-URL dedup of candidates, semantic dedup of   *)
(* articles, cosine similarity, the TL;DR parser, exact-URL dedup, the      *)
(* aggregation pipeline with the articles table, and the resolution of      *)
(* tracking redirects.                                                      *)
(*                                                                          *)
(* Strings are TLA+ strings handled character by character (Len, SubSeq,    *)
(* \o), so that parsing, serialising, lower-casing and trimming are real    *)
(* conversions and not identities.                                          *)
(***************************************************************************)
EXTENDS Integers, Sequences, FiniteSets, TLC

VARIABLES
    registrations,  \* ParserRegistry.registrations (array, insertion order)
    findHeader,     \* argument of the last findParser call
    findAt,         \* registrations.length when that call ran (-1: no call yet)
    findResult,     \* ParserMatchResult the call returned
    cIn,            \* canonicalizeUrl: first input string
    cIn2,           \* canonicalizeUrl: second input string
    cParams,        \* the query parameters cIn and cIn2 were written with
    cOut,           \* canonicalizeUrl(cIn)
    cOut2,          \* canonicalizeUrl(cIn2)
    cAgain,         \* canonicalizeUrl(cOut)
    cpc,            \* which canonicalizeUrl calls have returned
    dCands,         \* processNewsletters: allCandidates
    dOut,           \* uniqueCandidates, what deduplicateCandidatesByUrl returned
    dpc,            \* "collect" while candidates are pushed, "done" after the call
    sArticles,      \* deduplicateArticles: the articles argument
    sEmbeddings,    \* what createEmbeddings returned for them
    sResult,        \* the DedupResult, or the rejection
    sCalls,         \* how many times createEmbeddings was called
    spc,            \* "collect" while articles are gathered, "done" after the call
    kA,             \* cosineSimilarity: first vector
    kB,             \* cosineSimilarity: second vector
    kSim,           \* what the call returned, or that it threw
    kpc,            \* "input" before the call, "done" after
    tMsg,           \* TLDRParser.parse: the GmailMessage
    tClock,         \* the day the system clock reads (days from 1970-01-01)
    tOut,           \* what parse(tMsg) returned, or that it threw
    tOut2,          \* what a later parse(tMsg) returned, or that it threw
    tpc,            \* "ready", "parsed" after the first call, "done" after the second
    qArticles,      \* quickDeduplicateByUrl: the articles argument
    qOut,           \* what the call returned
    qpc,            \* "collect" while articles are gathered, "done" after the call
    store,          \* the articles table, in rowid order
    aggregations,   \* the aggregations table: the article ids of each row
    pEmails,        \* runAggregationPipeline: the emails not yet parsed
    pCandidates,    \* processNewsletters: allCandidates
    pUnique,        \* uniqueCandidates not yet gone through the save loop
    pStats,         \* processed, saved, skipped and deduped of the run
    pArticles,      \* the pipeline's articles variable
    pPasses,        \* the dedup passes the run has finished, in order
    pRuns,          \* how many pipeline runs were started
    ppc,            \* the step the pipeline run is at
    rIn,            \* resolveTrackingUrl and normalizeUrl: the input string
    rOut,           \* resolveTrackingUrl(rIn)
    rAgain,         \* resolveTrackingUrl(rOut)
    nOut,           \* normalizeUrl(rIn)
    nAgain,         \* normalizeUrl(nOut)
    rpc             \* "input" before the calls, "once" and "twice" after them

regVars == <<registrations, findHeader, findAt, findResult>>
canonVars == <<cIn, cIn2, cParams, cOut, cOut2, cAgain, cpc>>
dedupVars == <<dCands, dOut, dpc>>
semVars == <<sArticles, sEmbeddings, sResult, sCalls, spc>>
cosVars == <<kA, kB, kSim, kpc>>
tldrVars == <<tMsg, tClock, tOut, tOut2, tpc>>
quickVars == <<qArticles, qOut, qpc>>
pipeVars == <<store, aggregations, pEmails, pCandidates, pUnique, pStats, pArticles,
              pPasses, pRuns, ppc>>
resVars == <<rIn, rOut, rAgain, nOut, nAgain, rpc>>
moreVars == <<cosVars, tldrVars, quickVars, pipeVars, resVars>>
vars == <<regVars, canonVars, dedupVars, semVars, moreVars>>

\* What the actions of one part leave unchanged: the variables of the others
exceptReg == <<canonVars, dedupVars, semVars, moreVars>>
exceptCanon == <<regVars, dedupVars, semVars, moreVars>>
exceptDedup == <<regVars, canonVars, semVars, moreVars>>
exceptSem == <<regVars, canonVars, dedupVars, moreVars>>
exceptCos == <<regVars, canonVars, dedupVars, semVars, tldrVars, quickVars, pipeVars,
               resVars>>
exceptTldr == <<regVars, canonVars, dedupVars, semVars, cosVars, quickVars, pipeVars,
               resVars>>
exceptQuick == <<regVars, canonVars, dedupVars, semVars, cosVars, tldrVars, pipeVars,
               resVars>>
exceptPipe == <<regVars, canonVars, dedupVars, semVars, cosVars, tldrVars, quickVars,
               resVars>>

\* JavaScript null (a url that is null), and "no value yet" for a result slot
\* holding a record or a string. An optional property that is undefined is
\* a record field that is absent.
Null == "<null>"
None == [none |-> TRUE]
NoString == "<none>"

(***************************************************************************)
(* String primitives (JavaScript String methods, on characters).           *)
(***************************************************************************)
Min(S) == CHOOSE x \in S : \A y \in S : x <= y
Max(S) == CHOOSE x \in S : \A y \in S : x >= y

CharAt(s, i) == SubSeq(s, i, i)

\* s.substring(i-1): the characters from position i (1-based) to the end
From(s, i) == SubSeq(s, i, Len(s))

\* s.startsWith(p, i-1)
StartsWithAt(s, p, i) ==
    /\ i >= 1
    /\ i + Len(p) - 1 <= Len(s)
    /\ SubSeq(s, i, i + Len(p) - 1) = p

StartsWith(s, p) == StartsWithAt(s, p, 1)

EndsWith(s, p) == Len(p) <= Len(s) /\ StartsWithAt(s, p, Len(s) - Len(p) + 1)

\* s.indexOf(p, from-1) + 1: 1-based position of the first occurrence at or
\* after from, 0 when there is none
RECURSIVE IndexOfFrom(_, _, _)
IndexOfFrom(s, p, from) ==
    IF from + Len(p) - 1 > Len(s) THEN 0
    ELSE IF StartsWithAt(s, p, from) THEN from
    ELSE IndexOfFrom(s, p, from + 1)

IndexOf(s, p) == IndexOfFrom(s, p, 1)

Includes(s, p) == p = "" \/ IndexOf(s, p) # 0

\* array.includes(x) on a sequence
SeqIncludes(seq, x) == \E i \in 1..Len(seq) : seq[i] = x

UpperChars == "ABCDEFGHIJKLMNOPQRSTUVWXYZ"
LowerChars == "abcdefghijklmnopqrstuvwxyz"

UpperSet == {CharAt(UpperChars, i) : i \in 1..Len(UpperChars)}
LowerOf == [c \in UpperSet |-> CharAt(LowerChars, IndexOf(UpperChars, c))]

LowerChar(c) == IF c \in UpperSet THEN LowerOf[c] ELSE c

RECURSIVE ToLowerCase(_)
ToLowerCase(s) ==
    IF s = "" THEN "" ELSE LowerChar(CharAt(s, 1)) \o ToLowerCase(From(s, 2))

IsSpace(c) == c = " " \/ c = "\t" \/ c = "\n"

RECURSIVE TrimStart(_)
TrimStart(s) ==
    IF s # "" /\ IsSpace(CharAt(s, 1)) THEN TrimStart(From(s, 2)) ELSE s

RECURSIVE TrimEnd(_)
TrimEnd(s) ==
    IF s # "" /\ IsSpace(CharAt(s, Len(s)))
    THEN TrimEnd(SubSeq(s, 1, Len(s) - 1))
    ELSE s

Trim(s) == TrimEnd(TrimStart(s))

\* s.split(sep), sep one character: the pieces between the separators
RECURSIVE Split(_, _)
Split(s, sep) ==
    LET i == IndexOf(s, sep)
    IN  IF i = 0 THEN <<s>>
        ELSE <<SubSeq(s, 1, i - 1)>> \o Split(From(s, i + 1), sep)

\* array.map(f) on a sequence of strings, f = toLowerCase
MapLower(seq) == [i \in 1..Len(seq) |-> ToLowerCase(seq[i])]


(***************************************************************************)
(* Parser registry.                                                        *)
(***************************************************************************)
MaxRegistrations == 3

tldrParser == [source |-> "tldr", displayName |-> "TL;DR Newsletter"]
notBoringParser == [source |-> "notboring", displayName |-> "Not Boring"]

\* The registration parsers/index.ts makes when the module is loaded.
DefaultRegistration ==
    [parser |-> tldrParser,
     emailPatterns |-> <<"dan@tldrnewsletter.com", "tldr@tldrnewsletter.com",
                         "hello@tldr.tech", "dan@tldr.tech">>,
     domainPatterns |-> <<"tldrnewsletter.com", "tldr.tech">>]

\* Arguments of register: the default one and registrations with upper-case
\* letters, several patterns, no patterns and no domainPatterns at all.
EmailPatternChoices == {<<>>, <<"A@X.com", "b@x.com">>}
DomainPatternChoices == {<<"X.com">>}

RegistrationArgs ==
    {DefaultRegistration}
    \cup [parser : {tldrParser, notBoringParser},
          emailPatterns : EmailPatternChoices,
          domainPatterns : DomainPatternChoices]
    \cup [parser : {tldrParser, notBoringParser},
          emailPatterns : EmailPatternChoices]

\* "From" header values: "Name <addr>", bare addresses, upper case, padding,
\* an address in angle brackets after an empty pair, an address with two
\* "@", no address, empty.
FromHeaders ==
    {"Dan <dan@tldrnewsletter.com>", "someone@tldrnewsletter.com",
     "A@X.com", " b@x.com ", "<>c <C@x.com>", "d@x.com@evil.org", "nobody", ""}

\* Mutant: the registration is put in front of the earlier ones.
register_unshift(regs, registration) ==
    <<IF "domainPatterns" \in DOMAIN registration
      THEN [parser |-> registration.parser,
            emailPatterns |-> MapLower(registration.emailPatterns),
            domainPatterns |-> MapLower(registration.domainPatterns)]
      ELSE [parser |-> registration.parser,
            emailPatterns |-> MapLower(registration.emailPatterns)]>> \o regs

\* register(registration): the array with the normalised registration pushed
register(regs, registration) ==
    LET normalized ==
            IF "domainPatterns" \in DOMAIN registration
            THEN [parser |-> registration.parser,
                  emailPatterns |-> MapLower(registration.emailPatterns),
                  domainPatterns |-> MapLower(registration.domainPatterns)]
            ELSE [parser |-> registration.parser,
                  emailPatterns |-> MapLower(registration.emailPatterns)]
    IN  Append(regs, normalized)

\* fromHeader.match(/<([^>]+)>/): the leftmost "<" followed by one or more
\* characters other than ">" and then ">"; the group is what lies between.
\* <<>> when there is no match.
AngleMatch(fromHeader) ==
    LET Starts == {i \in 1..Len(fromHeader) :
                      /\ CharAt(fromHeader, i) = "<"
                      /\ IndexOfFrom(fromHeader, ">", i + 1) >= i + 2}
    IN  IF Starts = {} THEN <<>>
        ELSE LET i == Min(Starts)
                 j == IndexOfFrom(fromHeader, ">", i + 1)
             IN  <<SubSeq(fromHeader, i + 1, j - 1)>>

extractEmailAddress(fromHeader) ==
    LET angleMatch == AngleMatch(fromHeader)
    IN  IF angleMatch # <<>> THEN Trim(angleMatch[1]) ELSE Trim(fromHeader)

extractDomain(email) ==
    LET parts == Split(email, "@")
    IN  IF Len(parts) > 1 THEN parts[2] ELSE ""

Matched(registration, matchType) ==
    [matched |-> TRUE,
     parser |-> registration.parser,
     source |-> registration.parser.source,
     matchType |-> matchType]

NotMatched == [matched |-> FALSE]

\* registration.domainPatterns?.includes(domain)
DomainIncludes(registration, domain) ==
    /\ "domainPatterns" \in DOMAIN registration
    /\ SeqIncludes(registration.domainPatterns, domain)

\* The first loop of findParser from registration i on: the first registration
\* whose emailPatterns include the address returns; <<>> when the loop ends.
RECURSIVE ExactLoop(_, _, _)
ExactLoop(regs, i, emailAddress) ==
    IF i > Len(regs) THEN <<>>
    ELSE IF SeqIncludes(regs[i].emailPatterns, emailAddress)
    THEN <<Matched(regs[i], "exact_email")>>
    ELSE ExactLoop(regs, i + 1, emailAddress)

\* The second loop, over the domain patterns.
RECURSIVE DomainLoop(_, _, _)
DomainLoop(regs, i, domain) ==
    IF i > Len(regs) THEN <<>>
    ELSE IF DomainIncludes(regs[i], domain)
    THEN <<Matched(regs[i], "domain")>>
    ELSE DomainLoop(regs, i + 1, domain)

\* Mutant: one loop that tries, registration by registration, the exact
\* address and then the domain.
RECURSIVE PerRegistrationLoop(_, _, _, _)
PerRegistrationLoop(regs, i, emailAddress, domain) ==
    IF i > Len(regs) THEN NotMatched
    ELSE IF SeqIncludes(regs[i].emailPatterns, emailAddress)
    THEN Matched(regs[i], "exact_email")
    ELSE IF DomainIncludes(regs[i], domain)
    THEN Matched(regs[i], "domain")
    ELSE PerRegistrationLoop(regs, i + 1, emailAddress, domain)

findParser_perRegistration(regs, fromHeader) ==
    LET emailAddress == ToLowerCase(extractEmailAddress(fromHeader))
    IN  PerRegistrationLoop(regs, 1, emailAddress, extractDomain(emailAddress))

\* Mutant: the domain fallback is missing.
findParser_noFallback(regs, fromHeader) ==
    LET emailAddress == ToLowerCase(extractEmailAddress(fromHeader))
        exact == ExactLoop(regs, 1, emailAddress)
    IN  IF exact # <<>> THEN exact[1] ELSE NotMatched

findParser(regs, fromHeader) ==
    LET emailAddress == ToLowerCase(extractEmailAddress(fromHeader))
        domain == extractDomain(emailAddress)
        exact == ExactLoop(regs, 1, emailAddress)
        byDomain == DomainLoop(regs, 1, domain)
    IN  IF exact # <<>> THEN exact[1]
        ELSE IF byDomain # <<>> THEN byDomain[1]
        ELSE NotMatched

RegInit ==
    /\ registrations = <<>>
    /\ findHeader = NoString
    /\ findAt = -1
    /\ findResult = None

\* The other components before any of their calls.
CanonIdle ==
    /\ cIn = NoString
    /\ cIn2 = NoString
    /\ cParams = <<>>
    /\ cOut = NoString
    /\ cOut2 = NoString
    /\ cAgain = NoString
    /\ cpc = "idle"

DedupIdle ==
    /\ dCands = <<>>
    /\ dOut = <<>>
    /\ dpc = "idle"

SemIdle ==
    /\ sArticles = <<>>
    /\ sEmbeddings = <<>>
    /\ sResult = None
    /\ sCalls = 0
    /\ spc = "idle"

CosIdle ==
    /\ kA = <<>>
    /\ kB = <<>>
    /\ kSim = None
    /\ kpc = "idle"

TldrIdle ==
    /\ tMsg = None
    /\ tClock = 0
    /\ tOut = None
    /\ tOut2 = None
    /\ tpc = "idle"

QuickIdle ==
    /\ qArticles = <<>>
    /\ qOut = <<>>
    /\ qpc = "idle"

PipeIdle ==
    /\ store = <<>>
    /\ aggregations = <<>>
    /\ pEmails = <<>>
    /\ pCandidates = <<>>
    /\ pUnique = <<>>
    /\ pStats = [processed |-> 0, saved |-> 0, skipped |-> 0, deduped |-> 0]
    /\ pArticles = <<>>
    /\ pPasses = <<>>
    /\ pRuns = 0
    /\ ppc = "off"

ResIdle ==
    /\ rIn = NoString
    /\ rOut = NoString
    /\ rAgain = NoString
    /\ nOut = NoString
    /\ nAgain = NoString
    /\ rpc = "idle"

MoreIdle == CosIdle /\ TldrIdle /\ QuickIdle /\ PipeIdle /\ ResIdle

Register ==
    /\ Len(registrations) < MaxRegistrations
    /\ \E registration \in RegistrationArgs :
          registrations' = register(registrations, registration)
    /\ UNCHANGED <<findHeader, findAt, findResult>>
    /\ UNCHANGED exceptReg

FindParser ==
    /\ \E fromHeader \in FromHeaders :
          /\ findHeader' = fromHeader
          /\ findResult' = findParser(registrations, fromHeader)
    /\ findAt' = Len(registrations)
    /\ UNCHANGED registrations
    /\ UNCHANGED exceptReg

RegistryInit == RegInit /\ CanonIdle /\ DedupIdle /\ SemIdle /\ MoreIdle
RegistryNext == Register \/ FindParser
SpecRegistry == RegistryInit /\ [][RegistryNext]_vars

(***************************************************************************)
(* Claims about the registry (checked under SpecRegistry).                 *)
(***************************************************************************)
\* The lowercased address each header carries, and its domain.
AddressOf == [h \in FromHeaders |-> ToLowerCase(extractEmailAddress(h))]
DomainOf == [h \in FromHeaders |-> extractDomain(AddressOf[h])]

\* What the last findParser call looked up.
FindAddress == AddressOf[findHeader]
FindDomain == DomainOf[findHeader]

\* The registrations, present at the call, that list the address / the domain.
ExactSet ==
    {i \in 1..findAt : SeqIncludes(registrations[i].emailPatterns, FindAddress)}
DomainSet ==
    {i \in 1..findAt : DomainIncludes(registrations[i], FindDomain)}

\* C1: if some registration lists the extracted lowercased address in its
\* emailPatterns, findParser returns the earliest-registered such registration
\* with matchType exact_email, whatever domain patterns earlier registrations
\* hold; only when none does, it returns the earliest-registered registration
\* whose domainPatterns list the domain, with matchType domain.
C1_ExactBeforeDomain ==
    findAt >= 0 =>
        /\ ExactSet # {} =>
              findResult = Matched(registrations[Min(ExactSet)], "exact_email")
        /\ (ExactSet = {} /\ DomainSet # {}) =>
              findResult = Matched(registrations[Min(DomainSet)], "domain")

\* An exact match by the second or a later registration while the first
\* registration, of another parser, lists the domain.
C1_Witness ==
    /\ findAt >= 2
    /\ ExactSet # {}
    /\ Min(ExactSet) >= 2
    /\ 1 \in DomainSet
    /\ registrations[1].parser # registrations[Min(ExactSet)].parser
    /\ findResult.matched
    /\ findResult.matchType = "exact_email"
    /\ findResult.parser = registrations[Min(ExactSet)].parser

\* The default registration as register stores it.
StoredDefault == register(<<>>, DefaultRegistration)[1]

DefaultRegistered == \E i \in 1..findAt : registrations[i] = StoredDefault

\* C2: findParser returns a result for every header (it has no failing path);
\* the result is exactly {matched: false} iff no registration lists the
\* address and none lists the domain; a matched result carries parser, source
\* (the parser's source) and matchType; with the default registration the
\* header 'Dan <dan@tldrnewsletter.com>' is matched as exact_email.
C2_MatchedFalseIffNoPattern ==
    findAt >= 0 =>
        /\ "matched" \in DOMAIN findResult
        /\ (findResult = NotMatched) <=> (ExactSet = {} /\ DomainSet = {})
        /\ ~findResult.matched => DOMAIN findResult = {"matched"}
        /\ findResult.matched =>
              /\ DOMAIN findResult = {"matched", "parser", "source", "matchType"}
              /\ findResult.source = findResult.parser.source
              /\ findResult.matchType \in {"exact_email", "domain"}
              /\ \E i \in 1..findAt : registrations[i].parser = findResult.parser
        /\ (DefaultRegistered /\ findHeader = "Dan <dan@tldrnewsletter.com>") =>
              (findResult.matched /\ findResult.matchType = "exact_email")

\* A sender nobody registered, looked up in a registry holding the default
\* registration and one more.
C2_Witness ==
    /\ findAt >= 2
    /\ DefaultRegistered
    /\ findResult = NotMatched
    /\ FindAddress # ""


(***************************************************************************)
(* URL canonicalisation (parsers/canonicalize.ts).                         *)
(*                                                                         *)
(* new URL(), URLSearchParams and URL.toString() follow the WHATWG URL     *)
(* standard, restricted to the strings this model feeds them: a scheme, if *)
(* any, is http or https; no credentials, port, "." or ".." path segment,  *)
(* backslash, tab or line break; a host has no percent escape and ends in  *)
(* a letter;                                                                *)
(* a percent escape, where one occurs, is one of those of EscapeOf.        *)
(***************************************************************************)
\* The characters in use, in code-unit order (the order of searchParams.sort)
AsciiChars ==
    " #%&+-./0123456789:<=>?@ABCDEFGHIJKLMNOPQRSTUVWXYZ_abcdefghijklmnopqrstuvwxyz"
AsciiSet == {CharAt(AsciiChars, i) : i \in 1..Len(AsciiChars)}
CodeOf == [c \in AsciiSet |-> IndexOf(AsciiChars, c)]

Digits == "0123456789"
IsAlpha(c) == Includes(LowerChars, c) \/ Includes(UpperChars, c)
IsAlnum(c) == IsAlpha(c) \/ Includes(Digits, c)

\* a < b in code-unit order
RECURSIVE StrLess(_, _)
StrLess(a, b) ==
    IF b = "" THEN FALSE
    ELSE IF a = "" THEN TRUE
    ELSE IF CharAt(a, 1) = CharAt(b, 1) THEN StrLess(From(a, 2), From(b, 2))
    ELSE CodeOf[CharAt(a, 1)] < CodeOf[CharAt(b, 1)]

\* The escapes of the characters that application/x-www-form-urlencoded
\* serialising escapes, among the characters the model's strings use.
EscapedChars == {":", "/", "?", "=", "&", "#", "%", "+"}
EscapeOf ==
    [c \in EscapedChars |->
        CASE c = ":" -> "%3A"
          [] c = "/" -> "%2F"
          [] c = "?" -> "%3F"
          [] c = "=" -> "%3D"
          [] c = "&" -> "%26"
          [] c = "#" -> "%23"
          [] c = "%" -> "%25"
          [] c = "+" -> "%2B"]

\* The character a three-character escape stands for ("" when it is none of
\* the escapes above); hex digits in either case.
Unescape(e) ==
    LET C == {c \in EscapedChars \cup {" "} :
                 IF c = " " THEN e = "%20"
                 ELSE EscapeOf[c] = e \/ ToLowerCase(EscapeOf[c]) = e}
    IN  IF C = {} THEN "" ELSE CHOOSE c \in C : TRUE

\* percent-decode
RECURSIVE PercentDecode(_)
PercentDecode(s) ==
    IF s = "" THEN ""
    ELSE IF CharAt(s, 1) = "%" /\ Len(s) >= 3 /\ Unescape(SubSeq(s, 1, 3)) # ""
    THEN Unescape(SubSeq(s, 1, 3)) \o PercentDecode(From(s, 4))
    ELSE CharAt(s, 1) \o PercentDecode(From(s, 2))

\* application/x-www-form-urlencoded byte serialiser
RECURSIVE FormEncode(_)
FormEncode(s) ==
    IF s = "" THEN ""
    ELSE LET c == CharAt(s, 1)
         IN  (IF c = " " THEN "+"
              ELSE IF c \in EscapedChars THEN EscapeOf[c]
              ELSE c) \o FormEncode(From(s, 2))

\* s.replace(/x/g, y) for single characters
RECURSIVE ReplaceChar(_, _, _)
ReplaceChar(s, x, y) ==
    IF s = "" THEN ""
    ELSE (IF CharAt(s, 1) = x THEN y ELSE CharAt(s, 1)) \o ReplaceChar(From(s, 2), x, y)

\* The URL parser's percent-encoding of a path, query or fragment: of the
\* characters in use only the space is escaped.
UrlEncode(s) == ReplaceChar(s, " ", "%20")

\* First position at or after from holding one of the characters of stops;
\* Len(s) + 1 when there is none.
RECURSIVE FirstOf(_, _, _)
FirstOf(s, stops, from) ==
    IF from > Len(s) THEN Len(s) + 1
    ELSE IF Includes(stops, CharAt(s, from)) THEN from
    ELSE FirstOf(s, stops, from + 1)

\* First position at or after from that holds no slash
RECURSIVE SkipSlashes(_, _)
SkipSlashes(s, from) ==
    IF from <= Len(s) /\ CharAt(s, from) = "/"
    THEN SkipSlashes(s, from + 1)
    ELSE from

ParseFailure == [ok |-> FALSE]

\* scheme state: a letter, then letters, digits, "+", "-", "."
ValidScheme(t) ==
    /\ t # ""
    /\ IsAlpha(CharAt(t, 1))
    /\ \A i \in 1..Len(t) : IsAlnum(CharAt(t, i)) \/ Includes("+-.", CharAt(t, i))

\* host parser: no forbidden host code point
ValidHost(h) ==
    /\ h # ""
    /\ \A i \in 1..Len(h) : ~Includes(" #%/:<>?@", CharAt(h, i))

\* new URL(input) without a base: the URL record, or ParseFailure where the
\* constructor throws TypeError.
ParseUrl(input) ==
    LET s == Trim(input)
        colon == IndexOf(s, ":")
        scheme == ToLowerCase(SubSeq(s, 1, colon - 1))
        hostStart == SkipSlashes(s, colon + 1)
        hostEnd == FirstOf(s, "/?#", hostStart)
        host == SubSeq(s, hostStart, hostEnd - 1)
        pathEnd == FirstOf(s, "?#", hostEnd)
        rawPath == SubSeq(s, hostEnd, pathEnd - 1)
        hasQuery == pathEnd <= Len(s) /\ CharAt(s, pathEnd) = "?"
        queryEnd == IF hasQuery THEN FirstOf(s, "#", pathEnd + 1) ELSE pathEnd
        hasFragment == queryEnd <= Len(s)
    IN  IF colon = 0 \/ ~ValidScheme(SubSeq(s, 1, colon - 1)) THEN ParseFailure
        ELSE IF scheme \notin {"http", "https"} THEN ParseFailure
        ELSE IF ~ValidHost(host) THEN ParseFailure
        ELSE [ok |-> TRUE,
              scheme |-> scheme,
              host |-> ToLowerCase(host),
              path |-> IF rawPath = "" THEN "/" ELSE UrlEncode(rawPath),
              query |-> IF hasQuery
                        THEN UrlEncode(SubSeq(s, pathEnd + 1, queryEnd - 1))
                        ELSE Null,
              fragment |-> IF hasFragment THEN UrlEncode(From(s, queryEnd + 1))
                           ELSE Null]

\* URL.toString(): the URL serialiser
SerializeUrl(u) ==
    u.scheme \o "://" \o u.host \o u.path
    \o (IF u.query = Null THEN "" ELSE "?" \o u.query)
    \o (IF u.fragment = Null THEN "" ELSE "#" \o u.fragment)


TRACKING_PARAMS ==
    <<"utm_source", "utm_medium", "utm_campaign", "utm_term", "utm_content",
      "utm_id", "utm_cid", "mc_cid", "mc_eid", "ref", "ref_src", "ref_url",
      "referrer", "fbclid", "gclid", "gclsrc", "dclid", "msclkid", "twclid",
      "email", "subscriber_id", "mkt_tok", "s", "source", "campaign", "_ga",
      "_gl", "_hsenc", "_hsmi", "hsa_acc", "hsa_cam", "hsa_grp", "hsa_ad",
      "hsa_src", "hsa_tgt", "hsa_kw", "hsa_mt", "hsa_net", "hsa_ver">>

\* One name-value pair of the application/x-www-form-urlencoded parser
ParsePair(piece) ==
    LET eq == IndexOf(piece, "=")
        name == IF eq = 0 THEN piece ELSE SubSeq(piece, 1, eq - 1)
        value == IF eq = 0 THEN "" ELSE From(piece, eq + 1)
    IN  [name |-> PercentDecode(ReplaceChar(name, "+", " ")),
         value |-> PercentDecode(ReplaceChar(value, "+", " "))]

RECURSIVE ParsePieces(_, _)
ParsePieces(pieces, i) ==
    IF i > Len(pieces) THEN <<>>
    ELSE (IF pieces[i] = "" THEN <<>> ELSE <<ParsePair(pieces[i])>>)
         \o ParsePieces(pieces, i + 1)

\* url.searchParams: the list of name-value pairs of the query
SearchParams(query) ==
    IF query = Null THEN <<>> ELSE ParsePieces(Split(query, "&"), 1)

\* The serialisation of the list, which every change of searchParams writes
\* back to the URL's query (null when it is empty)
RECURSIVE SerializePairs(_, _)
SerializePairs(list, i) ==
    IF i > Len(list) THEN ""
    ELSE (IF i > 1 THEN "&" ELSE "")
         \o FormEncode(list[i].name) \o "=" \o FormEncode(list[i].value)
         \o SerializePairs(list, i + 1)

UpdateQuery(list) == IF list = <<>> THEN Null ELSE SerializePairs(list, 1)

\* The test of the forEach callback on one key
IsTrackingKey(key) ==
    LET lowerKey == ToLowerCase(key)
    IN  \/ SeqIncludes(TRACKING_PARAMS, lowerKey)
        \/ StartsWith(lowerKey, "utm_")
        \/ StartsWith(lowerKey, "mc_")
        \/ StartsWith(lowerKey, "hsa_")

\* paramsToDelete: the keys the forEach pushes, in list order
RECURSIVE ParamsToDelete(_, _)
ParamsToDelete(list, i) ==
    IF i > Len(list) THEN <<>>
    ELSE (IF IsTrackingKey(list[i].name) THEN <<list[i].name>> ELSE <<>>)
         \o ParamsToDelete(list, i + 1)

\* searchParams.delete(param): drops every pair of that name
RECURSIVE DeleteParam(_, _, _)
DeleteParam(list, param, i) ==
    IF i > Len(list) THEN <<>>
    ELSE (IF list[i].name = param THEN <<>> ELSE <<list[i]>>)
         \o DeleteParam(list, param, i + 1)

RECURSIVE DeleteAll(_, _, _)
DeleteAll(list, params, k) ==
    IF k > Len(params) THEN list
    ELSE DeleteAll(DeleteParam(list, params[k], 1), params, k + 1)

\* searchParams.sort(): stable sort by name in code-unit order. InsertPair
\* puts a pair after every pair of the sorted list whose name is not greater.
RECURSIVE InsertPair(_, _)
InsertPair(sorted, pair) ==
    IF sorted = <<>> THEN <<pair>>
    ELSE IF StrLess(pair.name, sorted[1].name) THEN <<pair>> \o sorted
    ELSE <<sorted[1]>> \o InsertPair(Tail(sorted), pair)

RECURSIVE SortPairs(_, _)
SortPairs(list, i) ==
    IF i = 0 THEN <<>> ELSE InsertPair(SortPairs(list, i - 1), list[i])

\* The body of the try block once the URL has parsed: the canonical string
CanonicalForm(parsed) ==
    LET list == SearchParams(parsed.query)
        kept == DeleteAll(list, ParamsToDelete(list, 1), 1)
        sorted == SortPairs(kept, Len(kept))
        pathname ==
            IF Len(parsed.path) > 1 /\ EndsWith(parsed.path, "/")
            THEN SubSeq(parsed.path, 1, Len(parsed.path) - 1)
            ELSE parsed.path
    IN  SerializeUrl([ok |-> TRUE,
                      scheme |-> "https",
                      host |-> ToLowerCase(parsed.host),
                      path |-> pathname,
                      query |-> UpdateQuery(sorted),
                      fragment |-> Null])

\* Mutant: the remaining parameters are not sorted.
canonicalizeUrl_noSort(url) ==
    IF url = "" THEN url
    ELSE LET parsed == ParseUrl(url)
         IN  IF ~parsed.ok THEN url
             ELSE LET list == SearchParams(parsed.query)
                      kept == DeleteAll(list, ParamsToDelete(list, 1), 1)
                  IN  SerializeUrl([ok |-> TRUE, scheme |-> "https",
                                    host |-> ToLowerCase(parsed.host),
                                    path |-> IF Len(parsed.path) > 1 /\ EndsWith(parsed.path, "/")
                                             THEN SubSeq(parsed.path, 1, Len(parsed.path) - 1)
                                             ELSE parsed.path,
                                    query |-> UpdateQuery(kept),
                                    fragment |-> Null])

\* Mutant: a string that does not parse comes back trimmed.
canonicalizeUrl_trimOnFailure(url) ==
    IF url = "" THEN url
    ELSE LET parsed == ParseUrl(url)
         IN  IF ~parsed.ok THEN Trim(url) ELSE CanonicalForm(parsed)

canonicalizeUrl(url) ==
    IF url = "" THEN url
    ELSE LET parsed == ParseUrl(url)
         IN  IF ~parsed.ok THEN url ELSE CanonicalForm(parsed)

\* decodeURIComponent(s): <<decoded>>, or <<>> where it throws URIError (a
\* "%" that two hex digits do not follow).  The escapes of the inputs are
\* those of EscapeOf and "%20".
HexDigits == "0123456789ABCDEFabcdef"

RECURSIVE WellEscaped(_)
WellEscaped(s) ==
    IF s = "" THEN TRUE
    ELSE IF CharAt(s, 1) # "%" THEN WellEscaped(From(s, 2))
    ELSE /\ Len(s) >= 3
         /\ Includes(HexDigits, CharAt(s, 2))
         /\ Includes(HexDigits, CharAt(s, 3))
         /\ WellEscaped(From(s, 4))

DecodeURIComponent(s) ==
    IF WellEscaped(s) THEN <<PercentDecode(s)>> ELSE <<>>

\* Long texts are scanned without a recursion per character: a search is
\* the least (or greatest) of the positions that match.

\* s.indexOf(p, from-1) + 1, 0 when there is none
Find(s, p, from) ==
    LET at == {i \in Max({from, 1})..(Len(s) - Len(p) + 1) : SubSeq(s, i, i + Len(p) - 1) = p}
    IN  IF at = {} THEN 0 ELSE CHOOSE i \in at : \A j \in at : i <= j

\* s.lastIndexOf(p) + 1, 0 when there is none
LastIndexOf(s, p) ==
    LET at == {i \in 1..(Len(s) - Len(p) + 1) : SubSeq(s, i, i + Len(p) - 1) = p}
    IN  IF at = {} THEN 0 ELSE CHOOSE i \in at : \A j \in at : i >= j

\* First position at or after from holding one of the characters of stops;
\* Len(s) + 1 when there is none
FindAny(s, stops, from) ==
    LET at == {i \in Max({from, 1})..Len(s) : Includes(stops, CharAt(s, i))}
    IN  IF at = {} THEN Len(s) + 1 ELSE CHOOSE i \in at : \A j \in at : i <= j

\* s.toLowerCase(), by halves
RECURSIVE LowerText(_)
LowerText(s) ==
    IF Len(s) = 0 THEN ""
    ELSE IF Len(s) = 1 THEN LowerChar(s)
    ELSE LowerText(SubSeq(s, 1, Len(s) \div 2))
         \o LowerText(SubSeq(s, Len(s) \div 2 + 1, Len(s)))

\* Length of https%3A%2F%2F or http%3A%2F%2F at position i of the url in
\* lower case, 0 when neither is there
EncodedSchemeLen(lower, i) ==
    IF StartsWithAt(lower, "https%3a%2f%2f", i) THEN 14
    ELSE IF StartsWithAt(lower, "http%3a%2f%2f", i) THEN 13
    ELSE 0

\* url.match(/https?%3A%2F%2F[^&\s]+/i) from position i on: <<the leftmost
\* match>>, or <<>> when there is none
EncodedUrlMatch(url, i) ==
    LET lower == LowerText(url)
        at == {j \in i..Len(url) :
                  /\ EncodedSchemeLen(lower, j) > 0
                  /\ j + EncodedSchemeLen(lower, j) <= Len(url)
                  /\ ~Includes("& ", CharAt(url, j + EncodedSchemeLen(lower, j)))}
    IN  IF at = {} THEN <<>>
        ELSE <<SubSeq(url, Min(at), FindAny(url, "& ", Min(at) + 13) - 1)>>

\* searchParams.get(name): the first value of that name, Null when none
RECURSIVE GetParam(_, _, _)
GetParam(list, name, i) ==
    IF i > Len(list) THEN Null
    ELSE IF list[i].name = name THEN list[i].value
    ELSE GetParam(list, name, i + 1)

\* try { return decodeURIComponent(v) } catch { return v }
DecodeOrKeep(v) ==
    LET decoded == DecodeURIComponent(v)
    IN  IF decoded = <<>> THEN v ELSE decoded[1]

redirectParams == <<"url", "redirect", "target", "destination", "goto", "link">>

\* The loop over redirectParams from index k: the first parameter that has
\* a value starting with "http" returns; <<>> when the loop ends
RECURSIVE RedirectLoop(_, _)
RedirectLoop(list, k) ==
    IF k > Len(redirectParams) THEN <<>>
    ELSE LET value == GetParam(list, redirectParams[k], 1)
         IN  IF value # Null /\ value # "" /\ StartsWith(value, "http")
             THEN <<DecodeOrKeep(value)>>
             ELSE RedirectLoop(list, k + 1)

resolveTrackingUrl(url) ==
    IF url = "" THEN url
    ELSE LET parsed == ParseUrl(url)
             list == SearchParams(parsed.query)
             pathMatch == EncodedUrlMatch(url, 1)
             byUrl == GetParam(list, "url", 1)
             target == IF byUrl # Null /\ byUrl # "" THEN byUrl
                       ELSE GetParam(list, "r", 1)
             generic == RedirectLoop(list, 1)
         IN  IF ~parsed.ok THEN url
             ELSE IF /\ parsed.host = "tracking.tldrnewsletter.com"
                     /\ pathMatch # <<>>
                     /\ DecodeURIComponent(pathMatch[1]) # <<>>
             THEN DecodeURIComponent(pathMatch[1])[1]
             ELSE IF /\ Includes(parsed.host, "substack.com")
                     /\ Includes(parsed.path, "/redirect")
                     /\ target # Null
                     /\ target # ""
             THEN DecodeOrKeep(target)
             ELSE IF generic # <<>> THEN generic[1]
             ELSE url

normalizeUrl(url) ==
    IF url = "" THEN url ELSE canonicalizeUrl(resolveTrackingUrl(url))

(***************************************************************************)
(* Inputs of canonicalizeUrl: URLs written from a scheme, a host, a path,  *)
(* a list of query parameters and a fragment, and strings that are no URL. *)
(***************************************************************************)
MaxParams == 2

SchemeChoices == {"http://", "https://"}
HostChoices == {"a.com", "A.Com"}
PathChoices == {"", "/", "/x", "/x/", "/x//"}
\* Two values of one key, a key without "=", a key with a tracking prefix
\* and an upper-case key of the tracking list
ParamChoices == {"a=1", "a=2", "b", "mc_z=1", "REF=r"}
FragmentChoices == {"", "#f"}
\* The paths of the pairs of URLs that differ in parameters and host case
PairPathChoices == {"", "/x/"}

ParamSeqs == UNION {[1..n -> ParamChoices] : n \in 0..MaxParams}

RECURSIVE JoinParams(_, _)
JoinParams(ps, i) ==
    IF i > Len(ps) THEN ""
    ELSE (IF i > 1 THEN "&" ELSE "") \o ps[i] \o JoinParams(ps, i + 1)

BuildUrl(scheme, host, path, ps, fragment) ==
    scheme \o host \o path
    \o (IF ps = <<>> THEN "" ELSE "?" \o JoinParams(ps, 1))
    \o fragment

\* Strings new URL() rejects (and the empty string, which is returned at once)
UnparseableChoices ==
    {"", "not a url", " a.com/x ", "://a.com/x", "https://", "http:// a.com/x",
     "https://?a=1"}

\* URLs with an empty query, empty parameters, an upper-case scheme, no
\* slashes after the scheme, surrounding and inner spaces
OtherUrlChoices ==
    {"https://a.com/x?", "https://a.com/x/?&a=1&&", "HTTPS://A.com",
     "https:a.com/x", " https://a.com/x ", "https://a.com/x y?p q=r+s#f g"}

\* The key of a parameter as written: what precedes its "="
ParamKey(param) == Split(param, "=")[1]

KeyOfParam == [q \in ParamChoices |-> ParamKey(q)]

\* A tracking parameter: its key, lowercased, is in the tracking list or
\* starts with utm_, mc_ or hsa_
TrackingParamChoices ==
    {q \in ParamChoices :
        LET k == ToLowerCase(ParamKey(q))
        IN  \/ \E i \in 1..Len(TRACKING_PARAMS) : TRACKING_PARAMS[i] = k
            \/ \E pre \in {"utm_", "mc_", "hsa_"} : StartsWith(k, pre)}

IsTrackingParam(param) == param \in TrackingParamChoices

\* The parameters of ps selected by the predicate keep, in order
RECURSIVE SelectParams(_, _, _)
SelectParams(ps, keep(_), i) ==
    IF i > Len(ps) THEN <<>>
    ELSE (IF keep(ps[i]) THEN <<ps[i]>> ELSE <<>>) \o SelectParams(ps, keep, i + 1)

NonTracking(ps) == LET keep(q) == ~IsTrackingParam(q) IN SelectParams(ps, keep, 1)

WithKey(ps, key) == LET keep(q) == KeyOfParam[q] = key IN SelectParams(ps, keep, 1)

Count(ps, param) == Cardinality({i \in 1..Len(ps) : ps[i] = param})

\* ps1 and ps2 differ only in the tracking parameters they carry and in the
\* order of the parameters
DifferOnlyInTrackingAndOrder(ps1, ps2) ==
    \A q \in ParamChoices :
        Count(NonTracking(ps1), q) = Count(NonTracking(ps2), q)

\* ... and the parameters that share a key come in the same order in both
SameKeyOrderKept(ps1, ps2) ==
    \A q \in ParamChoices :
        WithKey(NonTracking(ps1), KeyOfParam[q]) = WithKey(NonTracking(ps2), KeyOfParam[q])

\* The pairs of parameter lists that differ only so
RelatedParamSeqs ==
    {pp \in ParamSeqs \X ParamSeqs : DifferOnlyInTrackingAndOrder(pp[1], pp[2])}

CanonInputs ==
    /\ \/ \E ps \in ParamSeqs, scheme \in SchemeChoices, host \in HostChoices,
            path \in PathChoices, fragment \in FragmentChoices :
              /\ cIn = BuildUrl(scheme, host, path, ps, fragment)
              /\ cIn2 = cIn
              /\ cParams = <<ps, ps>>
       \/ \E pp \in RelatedParamSeqs, scheme \in SchemeChoices,
            h1 \in HostChoices, h2 \in HostChoices, path \in PairPathChoices :
              /\ cIn = BuildUrl(scheme, h1, path, pp[1], "#f")
              /\ cIn2 = BuildUrl(scheme, h2, path, pp[2], "#f")
              /\ cParams = pp
       \/ \E other \in UnparseableChoices \cup OtherUrlChoices :
              /\ cIn = other
              /\ cIn2 = other
              /\ cParams = <<<<>>, <<>>>>
    /\ cOut = NoString
    /\ cOut2 = NoString
    /\ cAgain = NoString
    /\ cpc = "input"

\* canonicalizeUrl(cIn) and canonicalizeUrl(cIn2) return
Canonicalize ==
    /\ cpc = "input"
    /\ cOut' = canonicalizeUrl(cIn)
    /\ cOut2' = canonicalizeUrl(cIn2)
    /\ cpc' = "once"
    /\ UNCHANGED <<cIn, cIn2, cParams, cAgain>>
    /\ UNCHANGED exceptCanon

\* canonicalizeUrl applied to its own result
Recanonicalize ==
    /\ cpc = "once"
    /\ cAgain' = canonicalizeUrl(cOut)
    /\ cpc' = "twice"
    /\ UNCHANGED <<cIn, cIn2, cParams, cOut, cOut2>>
    /\ UNCHANGED exceptCanon

CanonInit == CanonInputs /\ RegInit /\ DedupIdle /\ SemIdle /\ MoreIdle
CanonNext == Canonicalize \/ Recanonicalize
SpecCanon == CanonInit /\ [][CanonNext]_vars


(***************************************************************************)
(* Claims about canonicalizeUrl (checked under SpecCanon).                 *)
(***************************************************************************)
\* C6: canonicalizeUrl is idempotent: canonicalizing its own result returns
\* that result, for every input string, parseable or not, also when the
\* path ends in several slashes.
C6_Idempotent == cpc = "twice" => cAgain = cOut

\* C7 as claimed: two URLs that differ only in the tracking parameters they
\* carry, in the order of their query parameters and in the letter case of
\* the host have byte-equal canonical forms. (Every pair cIn, cIn2 of this
\* specification differs only so.)
C7_OrderIndependent == cpc # "input" => cOut = cOut2

\* C7 as amended: ... in the order of their query parameters, the parameters
\* that share a key keeping their relative order, ... have byte-equal
\* canonical forms (sort() is stable and compares the keys only).
C7_OrderIndependentUpToSameKey ==
    (cpc # "input" /\ SameKeyOrderKept(cParams[1], cParams[2])) => cOut = cOut2

\* Two URLs whose hosts differ in case and whose parameters, of different
\* keys, come in a different order, canonicalized to one string.
C7_Witness ==
    /\ cpc = "once"
    /\ Includes(cIn, "A.Com")
    /\ Includes(cIn2, "a.com")
    /\ NonTracking(cParams[1]) # NonTracking(cParams[2])
    /\ SameKeyOrderKept(cParams[1], cParams[2])
    /\ cOut = cOut2

\* C8: canonicalizeUrl returns a string for every input (its whole body is
\* inside try/catch), and a string that does not parse as a URL, such as
\* "not a url" or the empty string, comes back unchanged.
C8_UnparseableUnchanged ==
    cpc # "input" =>
        /\ cOut # NoString
        /\ (cIn = "" \/ ~ParseUrl(cIn).ok) => cOut = cIn

C8_Witness ==
    /\ cpc = "once"
    /\ cIn = "not a url"
    /\ ~ParseUrl(cIn).ok
    /\ cOut = "not a url"


(***************************************************************************)
(* deduplicateCandidatesByUrl.  An ArticleCandidate is a record with the   *)
(* fields title, url (a string or Null) and summary, and with the fields   *)
(* content and title_inferred when the candidate carries them.  The Map is *)
(* the sequence of its entries in insertion order.                         *)
(***************************************************************************)
MaxCands == 3

\* !candidate.url
HasUrl(candidate) == candidate.url # Null /\ candidate.url # ""

\* a.title_inferred as a condition: undefined and false are falsy
TitleInferred(a) == "title_inferred" \in DOMAIN a /\ a.title_inferred

\* a.content as a condition: undefined and "" are falsy
HasContent(a) == "content" \in DOMAIN a /\ a.content # ""

\* Mutant: the rule on inferred titles is left out.
isBetterCandidate_noInferredRule(a, b) ==
    IF HasContent(a) /\ ~HasContent(b) THEN TRUE
    ELSE IF ~HasContent(a) /\ HasContent(b) THEN FALSE
    ELSE IF Len(a.title) > Len(b.title) THEN TRUE
    ELSE IF Len(a.summary) > Len(b.summary) THEN TRUE
    ELSE FALSE

isBetterCandidate(a, b) ==
    IF ~TitleInferred(a) /\ TitleInferred(b) THEN TRUE
    ELSE IF TitleInferred(a) /\ ~TitleInferred(b) THEN FALSE
    ELSE IF HasContent(a) /\ ~HasContent(b) THEN TRUE
    ELSE IF ~HasContent(a) /\ HasContent(b) THEN FALSE
    ELSE IF Len(a.title) > Len(b.title) THEN TRUE
    ELSE IF Len(a.summary) > Len(b.summary) THEN TRUE
    ELSE FALSE

\* The URLs the candidates are drawn from, and normalizeUrl on each of them
CandidateUrls ==
    {"http://A.com/x/",
     "https://r.co/?url=https%3A%2F%2Fa.com%2Fx%3Futm_source%3Dt",
     "https://a.com/y"}

\* The URLs of the stories in the emails the pipeline fetches: two tracking
\* links to one article, one to another article; and the URL of an article
\* persisted before the first run
StoryA == "https://tracking.tldrnewsletter.com/CL0/https%3A%2F%2Fa.io%2Fx"
StoryA2 == "https://tracking.tldrnewsletter.com/CL0/HTTP%3A%2F%2FA.io%2Fx%2F"
StoryB == "https://tracking.tldrnewsletter.com/CL0/https%3A%2F%2Fb.io%2Fy"
PersistedA == "https://a.io/x"

StoryUrls == {StoryA, StoryA2, StoryB, PersistedA}

NormalizedUrl == [u \in CandidateUrls \cup StoryUrls |-> normalizeUrl(u)]

\* The key of the Map a candidate is filed under: the inline key of its
\* title, or canonicalUrl
DedupKey(candidate) ==
    IF ~HasUrl(candidate)
    THEN "inline:" \o Trim(ToLowerCase(candidate.title))
    ELSE NormalizedUrl[candidate.url]

\* urlMap.has(key), and the index of the entry
RECURSIVE EntryIndex(_, _, _)
EntryIndex(urlMap, key, i) ==
    IF i > Len(urlMap) THEN 0
    ELSE IF urlMap[i].key = key THEN i
    ELSE EntryIndex(urlMap, key, i + 1)

\* Mutant: set on an existing key moves the entry to the end.
MapSet_reinsert(urlMap, key, value) ==
    LET at == EntryIndex(urlMap, key, 1)
    IN  IF at = 0 THEN Append(urlMap, [key |-> key, value |-> value])
        ELSE Append(SubSeq(urlMap, 1, at - 1) \o SubSeq(urlMap, at + 1, Len(urlMap)),
                    [key |-> key, value |-> value])

\* urlMap.set(key, value): a new key is appended, an existing key keeps its
\* place
MapSet(urlMap, key, value) ==
    LET at == EntryIndex(urlMap, key, 1)
    IN  IF at = 0 THEN Append(urlMap, [key |-> key, value |-> value])
        ELSE [urlMap EXCEPT ![at].value = value]

\* The body of the for loop for a candidate with the given key: a candidate
\* without a URL is set when the key is new; one with a URL is set when the
\* key is new or when it is better than the existing entry
FileCandidate(urlMap, candidate, key) ==
    LET at == EntryIndex(urlMap, key, 1)
        replaces ==
            IF ~HasUrl(candidate) THEN at = 0
            ELSE IF at = 0 THEN TRUE
            ELSE isBetterCandidate(candidate, urlMap[at].value)
    IN  IF replaces THEN MapSet(urlMap, key, candidate) ELSE urlMap

\* One iteration of the for loop
DedupStep(urlMap, candidate) ==
    FileCandidate(urlMap, candidate, DedupKey(candidate))

RECURSIVE DedupLoop(_, _, _)
DedupLoop(candidates, i, urlMap) ==
    IF i > Len(candidates) THEN urlMap
    ELSE DedupLoop(candidates, i + 1, DedupStep(urlMap, candidates[i]))

\* Array.from(urlMap.values())
MapValues(urlMap) == [i \in 1..Len(urlMap) |-> urlMap[i].value]

deduplicateCandidatesByUrl(candidates) ==
    MapValues(DedupLoop(candidates, 1, <<>>))

(***************************************************************************)
(* Inputs of deduplicateCandidatesByUrl: allCandidates, collected one      *)
(* candidate at a time up to MaxCands candidates.  Two URLs of the pool     *)
(* normalise to the same key (one by its case, scheme and trailing slash,  *)
(* one through a redirect parameter and a tracking parameter); candidates  *)
(* without a URL have titles that differ in case and surrounding blanks    *)
(* only.                                                                   *)
(***************************************************************************)
Link(title, url, summary) == [title |-> title, url |-> url, summary |-> summary]

WithContent(candidate, content) ==
    [f \in DOMAIN candidate \cup {"content"} |->
        IF f = "content" THEN content ELSE candidate[f]]

WithInferred(candidate, flag) ==
    [f \in DOMAIN candidate \cup {"title_inferred"} |->
        IF f = "title_inferred" THEN flag ELSE candidate[f]]

PlainChoices ==
    {Link(t, "http://A.com/x/", s) : t \in {"Ab", "Abc"}, s \in {"s", "ss"}}
    \cup {Link("Abc", "https://r.co/?url=https%3A%2F%2Fa.com%2Fx%3Futm_source%3Dt", s) :
             s \in {"s", "ss"}}

FirstUrlChoices == {c \in PlainChoices : c.url = "http://A.com/x/"}

CandidateChoices ==
    PlainChoices
    \cup {WithContent(c, "c") : c \in FirstUrlChoices}
    \cup {WithInferred(c, TRUE) : c \in PlainChoices}
    \cup {WithInferred(WithContent(c, "c"), TRUE) : c \in FirstUrlChoices}
    \cup {Link("Y", "https://a.com/y", "s"),
          WithInferred(WithContent(Link("Yy", "https://a.com/y", "s"), ""), FALSE)}
    \cup {Link("News", Null, "s"),
          WithContent(Link(" news ", Null, "s"), "c"),
          Link("News", "", "ss")}

\* allCandidates before any candidate is collected
DedupInputs ==
    /\ dCands = <<>>
    /\ dOut = <<>>
    /\ dpc = "collect"

\* allCandidates.push(candidate)
PushCandidate ==
    /\ dpc = "collect"
    /\ Len(dCands) < MaxCands
    /\ \E candidate \in CandidateChoices : dCands' = Append(dCands, candidate)
    /\ UNCHANGED <<dOut, dpc>>
    /\ UNCHANGED exceptDedup

\* uniqueCandidates = deduplicateCandidatesByUrl(allCandidates)
Deduplicate ==
    /\ dpc = "collect"
    /\ dOut' = deduplicateCandidatesByUrl(dCands)
    /\ dpc' = "done"
    /\ UNCHANGED dCands
    /\ UNCHANGED exceptDedup

DedupInit == DedupInputs /\ RegInit /\ CanonIdle /\ SemIdle /\ MoreIdle
DedupNext == PushCandidate \/ Deduplicate
SpecDedup == DedupInit /\ [][DedupNext]_vars

(***************************************************************************)
(* Claims about deduplicateCandidatesByUrl (checked under SpecDedup).      *)
(***************************************************************************)
\* The positions of the input filed under a key, and the first of them
GroupOf(key) == {i \in 1..Len(dCands) : DedupKey(dCands[i]) = key}

FirstOccurrence(key) == CHOOSE i \in GroupOf(key) : \A j \in GroupOf(key) : i <= j

InputKeys == {DedupKey(dCands[i]) : i \in 1..Len(dCands)}

\* The preference order of the four rules, each consulted when the earlier
\* ones tie
Score(b) == IF b THEN 1 ELSE 0

Rank(c) ==
    <<Score(~TitleInferred(c)), Score(HasContent(c)), Len(c.title), Len(c.summary)>>

LexGreater(r, q) ==
    \E k \in 1..4 : r[k] > q[k] /\ \A m \in 1..(k - 1) : r[m] = q[m]

\* The position of the member of a group that is greatest in the preference
\* order, the earliest one among equals
Preferred(key) ==
    CHOOSE i \in GroupOf(key) :
        \A j \in GroupOf(key) \ {i} :
            \/ LexGreater(Rank(dCands[i]), Rank(dCands[j]))
            \/ Rank(dCands[i]) = Rank(dCands[j]) /\ i < j

\* C3: for every group of candidates with the same normalized URL, in every
\* input order, the candidate kept is the member greatest under the
\* lexicographic preference (not inferred, has content, longer title, longer
\* summary), the earliest-seen member when all four tie.
C3_LexicographicPreference ==
    dpc = "done" =>
        \A i \in 1..Len(dOut) :
            HasUrl(dOut[i]) => dOut[i] = dCands[Preferred(DedupKey(dOut[i]))]

\* C4: whenever a group of candidates with the same normalized URL has a
\* member whose title is not inferred, the candidate kept for the group has
\* a title that is not inferred.
C4_NonInferredKept ==
    dpc = "done" =>
        \A i \in 1..Len(dOut) :
            (/\ HasUrl(dOut[i])
             /\ \E j \in GroupOf(DedupKey(dOut[i])) : ~TitleInferred(dCands[j]))
            => ~TitleInferred(dOut[i])

\* A group of three: the first member has an inferred title, content and the
\* longest title, a later member has a title that is not inferred, and the
\* member kept is not inferred.
C4_Witness ==
    /\ dpc = "done"
    /\ Len(dCands) = 3
    /\ Len(dOut) = 1
    /\ TitleInferred(dCands[1]) /\ HasContent(dCands[1])
    /\ dCands[1].title = "Abc"
    /\ TitleInferred(dCands[2])
    /\ dCands[2].url # dCands[1].url
    /\ ~TitleInferred(dCands[3]) /\ ~HasContent(dCands[3])
    /\ dCands[3].title = "Ab"
    /\ dOut[1] = dCands[3]

\* C5: the result has exactly one candidate per dedup key of the input,
\* every returned candidate is an input candidate filed under that key, and
\* the result is ordered by the first occurrence of the keys in the input.
C5_OnePerKeyInFirstOccurrenceOrder ==
    dpc = "done" =>
        /\ {DedupKey(dOut[i]) : i \in 1..Len(dOut)} = InputKeys
        /\ Len(dOut) = Cardinality(InputKeys)
        /\ \A i \in 1..Len(dOut) :
              \E j \in GroupOf(DedupKey(dOut[i])) : dOut[i] = dCands[j]
        /\ \A i, j \in 1..Len(dOut) :
              i < j => FirstOccurrence(DedupKey(dOut[i])) < FirstOccurrence(DedupKey(dOut[j]))

\* The first key of the input occurs again after a second key, and the later
\* member replaced the first-seen one as the representative.
C5_Witness ==
    /\ dpc = "done"
    /\ Len(dCands) = 3
    /\ Len(dOut) = 2
    /\ DedupKey(dCands[1]) = DedupKey(dCands[3])
    /\ DedupKey(dCands[2]) # DedupKey(dCands[1])
    /\ dCands[3] # dCands[1]
    /\ dOut[1] = dCands[3]
    /\ dOut[2] = dCands[2]


(***************************************************************************)
(* deduplicateArticles.  An embedding is a sequence of integers.  A        *)
(* similarity is kept exactly, as the sign of the dot product together     *)
(* with the squares of the dot product and of the product of the norms, so *)
(* that the comparison with the threshold is a comparison of integers.     *)
(* The embeddings in use have similarities that are either exactly the     *)
(* threshold with exact square roots (17/20) or far from it, where the     *)
(* floating-point comparison agrees with the exact one.                    *)
(***************************************************************************)
MaxArticles == 3

\* SIMILARITY_THRESHOLD = 0.85 = ThresholdNum / ThresholdDen
ThresholdNum == 17
ThresholdDen == 20

RECURSIVE SumProducts(_, _, _)
SumProducts(a, b, i) ==
    IF i > Len(a) THEN 0 ELSE a[i] * b[i] + SumProducts(a, b, i + 1)

Sign(x) == IF x > 0 THEN 1 ELSE IF x < 0 THEN -1 ELSE 0

Threw == [threw |-> TRUE]

\* The number sign * sqrt(numSq / denSq)
Similarity(sign, numSq, denSq) ==
    [threw |-> FALSE, sign |-> sign, numSq |-> numSq, denSq |-> denSq]

Zero == Similarity(0, 0, 1)
One == Similarity(1, 1, 1)

\* Mutant: the norms are not tested for zero, and 0 / 0 is NaN (denSq 0).
Quotient_noZeroCheck(dotProduct, normASq, normBSq) ==
    Similarity(Sign(dotProduct), dotProduct * dotProduct, normASq * normBSq)

\* The value for a dot product and squared norms that are known
Quotient(dotProduct, normASq, normBSq) ==
    IF normASq = 0 \/ normBSq = 0 THEN Zero
    ELSE Similarity(Sign(dotProduct), dotProduct * dotProduct, normASq * normBSq)

cosineSimilarity(a, b) ==
    IF Len(a) # Len(b) THEN Threw
    ELSE Quotient(SumProducts(a, b, 1), SumProducts(a, a, 1), SumProducts(b, b, 1))

\* Mutant: the threshold is exclusive.
AtLeastThreshold_strict(sim) ==
    /\ sim.sign > 0
    /\ ThresholdDen * ThresholdDen * sim.numSq > ThresholdNum * ThresholdNum * sim.denSq

\* similarity >= SIMILARITY_THRESHOLD
AtLeastThreshold(sim) ==
    /\ sim.sign > 0
    /\ ThresholdDen * ThresholdDen * sim.numSq >= ThresholdNum * ThresholdNum * sim.denSq

\* similarityMatrix[i][j]: the entries the union loop reads are those with
\* i < j; the entries below the diagonal are copies of them
similarityMatrix(embeddings) ==
    [i \in 1..Len(embeddings) |->
        [j \in 1..Len(embeddings) |->
            IF i = j THEN One
            ELSE IF j < i THEN cosineSimilarity(embeddings[j], embeddings[i])
            ELSE cosineSimilarity(embeddings[i], embeddings[j])]]

\* Some call of cosineSimilarity in the matrix loops throws
MatrixThrows(embeddings) ==
    \E i, j \in 1..Len(embeddings) :
        i < j /\ Len(embeddings[i]) # Len(embeddings[j])

\* find(i), with its path compression: the root and the parent array after
\* the call
RECURSIVE find(_, _)
find(parent, i) ==
    IF parent[i] # i
    THEN LET up == find(parent, parent[i])
         IN  [root |-> up.root, parent |-> [up.parent EXCEPT ![i] = up.root]]
    ELSE [root |-> i, parent |-> parent]

\* Mutant: union sets the parent of i itself, without find.
union_noFind(parent, i, j) == [parent EXCEPT ![i] = j]

\* union(i, j): the parent array after the call
union(parent, i, j) ==
    LET pi == find(parent, i)
        pj == find(pi.parent, j)
    IN  IF pi.root # pj.root THEN [pj.parent EXCEPT ![pi.root] = pj.root]
        ELSE pj.parent

\* The two nested loops that union similar articles, from the pair (i, j)
RECURSIVE UnionLoop(_, _, _, _)
UnionLoop(parent, matrix, i, j) ==
    IF i > Len(parent) THEN parent
    ELSE IF j > Len(parent) THEN UnionLoop(parent, matrix, i + 1, i + 2)
    ELSE UnionLoop(IF AtLeastThreshold(matrix[i][j]) THEN union(parent, i, j)
                   ELSE parent,
                   matrix, i, j + 1)

\* groups.has(root) and the index of the entry; the Map is the sequence of
\* its entries in insertion order
RECURSIVE GroupIndex(_, _, _)
GroupIndex(groups, root, k) ==
    IF k > Len(groups) THEN 0
    ELSE IF groups[k].root = root THEN k
    ELSE GroupIndex(groups, root, k + 1)

\* groups.set(root, []) when the root is new, then push
PushToGroup(groups, root, article, at) ==
    IF at = 0 THEN Append(groups, [root |-> root, members |-> <<article>>])
    ELSE [groups EXCEPT ![at].members = Append(@, article)]

\* The loop that groups the articles by their root, from article i
RECURSIVE GroupLoop(_, _, _, _)
GroupLoop(articles, parent, groups, i) ==
    IF i > Len(articles) THEN groups
    ELSE LET found == find(parent, i)
         IN  GroupLoop(articles, found.parent,
                       PushToGroup(groups, found.root, articles[i],
                                   GroupIndex(groups, found.root, 1)),
                       i + 1)

\* parseInt of a string of decimal digits
RECURSIVE ParseDigits(_, _)
ParseDigits(s, acc) ==
    IF s = "" THEN acc
    ELSE ParseDigits(From(s, 2), 10 * acc + IndexOf(Digits, CharAt(s, 1)) - 1)

\* Days from 1970-01-01 to the civil date y-m-d (proleptic Gregorian)
DaysFromCivil(y, m, d) ==
    LET yy == IF m <= 2 THEN y - 1 ELSE y
        era == yy \div 400
        yoe == yy - era * 400
        mp == (m + 9) % 12
        doy == (153 * mp + 2) \div 5 + d - 1
        doe == yoe * 365 + yoe \div 4 - yoe \div 100 + doy
    IN  era * 146097 + doe - 719468

\* new Date(s).getTime() for a date-only string YYYY-MM-DD, which is UTC
\* midnight of that day, counted in days (86 400 000 ms each); the
\* comparator reads differences of these only
DateTime(s) ==
    DaysFromCivil(ParseDigits(SubSeq(s, 1, 4), 0),
                  ParseDigits(SubSeq(s, 6, 7), 0),
                  ParseDigits(SubSeq(s, 9, 10), 0))

\* Mutant: the comparator compares the dates only.
compareArticles_dateOnly(a, b) ==
    DateTime(b.newsletter_date) - DateTime(a.newsletter_date)

\* The comparator of group.sort
compareArticles(a, b) ==
    IF DateTime(b.newsletter_date) - DateTime(a.newsletter_date) # 0
    THEN DateTime(b.newsletter_date) - DateTime(a.newsletter_date)
    ELSE Len(b.summary) - Len(a.summary)

\* Insertion of x into a sorted sequence after every element that does not
\* sort after it
RECURSIVE InsertSorted(_, _, _)
InsertSorted(sorted, x, k) ==
    IF k > Len(sorted) THEN Append(sorted, x)
    ELSE IF compareArticles(x, sorted[k]) < 0
    THEN SubSeq(sorted, 1, k - 1) \o <<x>> \o SubSeq(sorted, k, Len(sorted))
    ELSE InsertSorted(sorted, x, k + 1)

\* group.sort(comparator): Array.prototype.sort is stable
RECURSIVE SortGroup(_, _, _)
SortGroup(group, sorted, i) ==
    IF i > Len(group) THEN sorted
    ELSE SortGroup(group, InsertSorted(sorted, group[i], 1), i + 1)

\* The loop over groups.values() from group k
RECURSIVE SelectLoop(_, _, _, _)
SelectLoop(groups, k, uniqueArticles, duplicateGroups) ==
    IF k > Len(groups)
    THEN [uniqueArticles |-> uniqueArticles, duplicateGroups |-> duplicateGroups]
    ELSE IF Len(groups[k].members) = 1
    THEN SelectLoop(groups, k + 1,
                    Append(uniqueArticles, groups[k].members[1]),
                    duplicateGroups)
    ELSE SelectLoop(groups, k + 1,
                    Append(uniqueArticles, SortGroup(groups[k].members, <<>>, 1)[1]),
                    Append(duplicateGroups, SortGroup(groups[k].members, <<>>, 1)))

\* Mutant: removedCount counts the duplicate groups.
DedupResult_countGroups(articles, selected) ==
    [threw |-> FALSE,
     uniqueArticles |-> selected.uniqueArticles,
     duplicateGroups |-> selected.duplicateGroups,
     totalArticles |-> Len(articles),
     removedCount |-> Len(selected.duplicateGroups)]

\* The DedupResult for the selection
DedupResult(articles, selected) ==
    [threw |-> FALSE,
     uniqueArticles |-> selected.uniqueArticles,
     duplicateGroups |-> selected.duplicateGroups,
     totalArticles |-> Len(articles),
     removedCount |-> Len(articles) - Len(selected.uniqueArticles)]

\* The initial parent array: every index its own parent
OwnParent(articles) == [i \in 1..Len(articles) |-> i]

\* deduplicateArticles(articles) where createEmbeddings resolved to
\* embeddings: the DedupResult, or Threw when cosineSimilarity throws
deduplicateArticles(articles, embeddings) ==
    IF Len(articles) <= 1
    THEN [threw |-> FALSE,
          uniqueArticles |-> articles,
          duplicateGroups |-> <<>>,
          totalArticles |-> Len(articles),
          removedCount |-> 0]
    ELSE IF MatrixThrows(embeddings) THEN Threw
    ELSE DedupResult(articles,
            SelectLoop(GroupLoop(articles,
                                 UnionLoop(OwnParent(articles),
                                           similarityMatrix(embeddings), 1, 2),
                                 <<>>, 1),
                       1, <<>>, <<>>))

(***************************************************************************)
(* Inputs of deduplicateArticles: up to MaxArticles articles with the ids  *)
(* 1, 2, ... in list order, valid date-only newsletter dates and summaries *)
(* of two lengths; createEmbeddings resolves to one embedding per article, *)
(* drawn from EmbeddingChoices.  EmbA and EmbB have similarity exactly     *)
(* 17/20, EmbB and EmbC 351/400, EmbA and EmbC 1/2; EmbZero has norm 0 and *)
(* EmbShort another length.                                                *)
(***************************************************************************)
EmbA == <<1, 0, 0, 0, 0>>
EmbB == <<17, 10, 3, 1, 1>>
EmbC == <<10, 17, 3, 1, 1>>
EmbZero == <<0, 0, 0, 0, 0>>
EmbShort == <<1, 0>>

EmbeddingChoices == {EmbA, EmbB, EmbC, EmbZero, EmbShort}

DateChoices == {"2024-02-29", "2024-03-01"}
SummaryChoices == {"s", "ss"}

Article(id, summary, date) ==
    [id |-> id, summary |-> summary, newsletter_date |-> date]

\* The calls of createEmbeddings without the early return before them
EmbeddingCalls_always(articles) == 1

\* How many times deduplicateArticles(articles) calls createEmbeddings: the
\* early return for at most one article comes before the call
EmbeddingCalls(articles) == IF Len(articles) <= 1 THEN 0 ELSE 1

SemInputs ==
    /\ sArticles = <<>>
    /\ sEmbeddings = <<>>
    /\ sResult = None
    /\ sCalls = 0
    /\ spc = "collect"

\* One more article in the list deduplicateArticles is called with
AddArticle ==
    /\ spc = "collect"
    /\ Len(sArticles) < MaxArticles
    /\ \E summary \in SummaryChoices, date \in DateChoices :
          sArticles' = Append(sArticles, Article(Len(sArticles) + 1, summary, date))
    /\ UNCHANGED <<sEmbeddings, sResult, sCalls, spc>>
    /\ UNCHANGED exceptSem

\* deduplicateArticles(articles) with at most one article: the early return,
\* createEmbeddings is not called
DeduplicateFew ==
    /\ spc = "collect"
    /\ Len(sArticles) <= 1
    /\ sResult' = deduplicateArticles(sArticles, <<>>)
    /\ sCalls' = sCalls + EmbeddingCalls(sArticles)
    /\ spc' = "done"
    /\ UNCHANGED <<sArticles, sEmbeddings>>
    /\ UNCHANGED exceptSem

\* deduplicateArticles(articles) with several articles
DeduplicateArticles ==
    /\ spc = "collect"
    /\ Len(sArticles) > 1
    /\ \E embeddings \in [1..Len(sArticles) -> EmbeddingChoices] :
          /\ sEmbeddings' = embeddings
          /\ sResult' = deduplicateArticles(sArticles, embeddings)
    /\ sCalls' = sCalls + EmbeddingCalls(sArticles)
    /\ spc' = "done"
    /\ UNCHANGED sArticles
    /\ UNCHANGED exceptSem

SemInit == SemInputs /\ RegInit /\ CanonIdle /\ DedupIdle /\ MoreIdle
SemNext == AddArticle \/ DeduplicateFew \/ DeduplicateArticles
SpecSemantic == SemInit /\ [][SemNext]_vars

(***************************************************************************)
(* Claims about deduplicateArticles (checked under SpecSemantic).          *)
(***************************************************************************)
\* The call returned a DedupResult for several articles
Deduplicated == spc = "done" /\ Len(sArticles) > 1 /\ ~sResult.threw

\* Articles i and j have cosine similarity >= 0.85
SimilarPair(i, j) ==
    LET dot == SumProducts(sEmbeddings[i], sEmbeddings[j], 1)
        normsSq == SumProducts(sEmbeddings[i], sEmbeddings[i], 1)
                   * SumProducts(sEmbeddings[j], sEmbeddings[j], 1)
    IN  /\ dot > 0
        /\ normsSq > 0
        /\ ThresholdDen * ThresholdDen * dot * dot
              >= ThresholdNum * ThresholdNum * normsSq

\* The articles a chain of pairwise-similar articles links to those of S
RECURSIVE Chained(_)
Chained(S) ==
    LET T == S \cup {j \in 1..Len(sArticles) : \E i \in S : i # j /\ SimilarPair(i, j)}
    IN  IF T = S THEN S ELSE Chained(T)

Component(i) == Chained({i})

Ids(articles) == {articles[k].id : k \in 1..Len(articles)}

\* The group the result puts article i in: the duplicate groups holding it,
\* or the article alone
ResultGroup(i) ==
    {i} \cup UNION {Ids(sResult.duplicateGroups[g]) :
                       g \in {h \in 1..Len(sResult.duplicateGroups) :
                                 i \in Ids(sResult.duplicateGroups[h])}}

\* C9: the groups are the connected components of the relation "cosine
\* similarity >= 0.85" (inclusive): two articles are in one group iff a
\* chain of pairwise-similar articles links them, and exactly one article
\* of every group is in uniqueArticles.
C9_GroupsAreConnectedComponents ==
    Deduplicated =>
        \A i \in 1..Len(sArticles) :
            /\ ResultGroup(i) = Component(i)
            /\ Cardinality({k \in 1..Len(sResult.uniqueArticles) :
                               sResult.uniqueArticles[k].id \in Component(i)}) = 1

\* A-B and B-C are similar (A-B at exactly 0.85), A-C is not, and the three
\* form one group of size 3 with one article in uniqueArticles.
C9_Witness ==
    /\ Deduplicated
    /\ sEmbeddings = <<EmbA, EmbB, EmbC>>
    /\ SimilarPair(1, 2) /\ SimilarPair(2, 3) /\ ~SimilarPair(1, 3)
    /\ Len(sResult.duplicateGroups) = 1
    /\ Len(sResult.duplicateGroups[1]) = 3
    /\ Len(sResult.uniqueArticles) = 1

\* Article a is at least as good a representative as article b: a later
\* date, or the same date and a summary at least as long
NotWorse(a, b) ==
    \/ DateTime(a.newsletter_date) > DateTime(b.newsletter_date)
    \/ /\ DateTime(a.newsletter_date) = DateTime(b.newsletter_date)
       /\ Len(a.summary) >= Len(b.summary)

\* C10: every group of several members is recorded in duplicateGroups with
\* all its members, and its one member in uniqueArticles is the member with
\* the latest newsletter_date, the longest summary among those; an article
\* that is a group of its own is in uniqueArticles unchanged and in no
\* duplicate group.
C10_RepresentativeIsLatestThenLongest ==
    Deduplicated =>
        /\ \A g \in 1..Len(sResult.duplicateGroups) :
              LET group == sResult.duplicateGroups[g]
              IN  /\ Len(group) > 1
                  /\ Len(group) = Cardinality(Ids(group))
                  /\ Ids(group) = Component(group[1].id)
                  /\ \A k \in 1..Len(group) :
                        /\ group[k] = sArticles[group[k].id]
                        /\ NotWorse(group[1], group[k])
                  /\ \A k \in 1..Len(sResult.uniqueArticles) :
                        sResult.uniqueArticles[k].id \in Ids(group)
                            => sResult.uniqueArticles[k] = group[1]
                  /\ \E k \in 1..Len(sResult.uniqueArticles) :
                        sResult.uniqueArticles[k] = group[1]
        /\ \A i \in 1..Len(sArticles) :
              Cardinality(Component(i)) > 1 =>
                  \E g \in 1..Len(sResult.duplicateGroups) :
                      i \in Ids(sResult.duplicateGroups[g])
        /\ \A i \in 1..Len(sArticles) :
              Component(i) = {i} =>
                  /\ \E k \in 1..Len(sResult.uniqueArticles) :
                        sResult.uniqueArticles[k] = sArticles[i]
                  /\ \A g \in 1..Len(sResult.duplicateGroups) :
                        i \notin Ids(sResult.duplicateGroups[g])

\* An article on its own and a group of two with the same date, where the
\* later article has the longer summary and is the representative.
C10_Witness ==
    /\ Deduplicated
    /\ sEmbeddings = <<EmbZero, EmbA, EmbB>>
    /\ sArticles[2].newsletter_date = sArticles[3].newsletter_date
    /\ sArticles[2].summary = "s"
    /\ sArticles[3].summary = "ss"
    /\ sResult.uniqueArticles = <<sArticles[1], sArticles[3]>>
    /\ sResult.duplicateGroups = <<<<sArticles[3], sArticles[2]>>>>

(***************************************************************************)
(* cosineSimilarity on its own: pairs of vectors of several lengths, with  *)
(* zero vectors of two lengths, the empty vector and a negative one.       *)
(***************************************************************************)
VectorChoices ==
    EmbeddingChoices \cup {<<>>, <<0, 0>>, <<-1, 0, 0, 0, 0>>}

CosInputs ==
    /\ kA \in VectorChoices
    /\ kB \in VectorChoices
    /\ kSim = None
    /\ kpc = "input"

CosineSimilarity ==
    /\ kpc = "input"
    /\ kSim' = cosineSimilarity(kA, kB)
    /\ kpc' = "done"
    /\ UNCHANGED <<kA, kB>>
    /\ UNCHANGED exceptCos

CosInit ==
    /\ CosInputs
    /\ RegInit /\ CanonIdle /\ DedupIdle /\ SemIdle /\ TldrIdle /\ QuickIdle /\ PipeIdle
    /\ ResIdle
CosNext == CosineSimilarity
SpecCosine == CosInit /\ [][CosNext]_vars

(***************************************************************************)
(* Claims about cosineSimilarity (checked under SpecCosine).               *)
(***************************************************************************)
ZeroNorm(v) == \A i \in 1..Len(v) : v[i] = 0

\* The call returned the number 0 (not NaN, which has denSq = 0)
ReturnedZero ==
    /\ ~kSim.threw
    /\ kSim.sign = 0 /\ kSim.numSq = 0 /\ kSim.denSq # 0

\* C11 as stated: 0 is returned whenever either vector has zero norm, an
\* error is signalled whenever the lengths differ, and none for equal
\* lengths.
C11_ZeroNormReturnsZero ==
    kpc = "done" =>
        /\ (ZeroNorm(kA) \/ ZeroNorm(kB)) => ReturnedZero
        /\ Len(kA) # Len(kB) => kSim.threw
        /\ Len(kA) = Len(kB) => ~kSim.threw

\* C11 (amended): an error is signalled exactly when the lengths differ, and
\* for vectors of equal length 0 is returned (no NaN, no error) whenever
\* either has zero norm, two zero vectors included.
C11_ZeroNormOfEqualLength ==
    kpc = "done" =>
        /\ kSim.threw <=> Len(kA) # Len(kB)
        /\ (Len(kA) = Len(kB) /\ (ZeroNorm(kA) \/ ZeroNorm(kB))) => ReturnedZero

\* Two zero vectors of the same length, and 0 returned.
C11_Witness ==
    /\ kpc = "done"
    /\ kA = EmbZero /\ kB = EmbZero
    /\ ReturnedZero

(***************************************************************************)
(* TLDRParser.  The regular expressions of the parser are scans over the   *)
(* characters of the string.  Strings are ASCII; white space is the blank, *)
(* the tab and the newline.                                                *)
(***************************************************************************)
\* s.replace(/open[\s\S]*?close/gi, '') from position i, where lower is s in
\* lower case: every stretch from an open to the first close after it goes
RECURSIVE RemoveBlocksFrom(_, _, _, _, _)
RemoveBlocksFrom(s, lower, open, close, i) ==
    LET o == Find(lower, open, i)
        c == IF o = 0 THEN 0 ELSE Find(lower, close, o + Len(open))
    IN  IF o = 0 \/ c = 0 THEN From(s, i)
        ELSE SubSeq(s, i, o - 1)
             \o RemoveBlocksFrom(s, lower, open, close, c + Len(close))

RemoveBlocks(s, open, close) ==
    RemoveBlocksFrom(s, LowerText(s), open, close, 1)

\* The three replacements that make cleanHtml
CleanHtml(html) ==
    RemoveBlocks(RemoveBlocks(RemoveBlocks(html, "<!--", "-->"),
                              "<script", "</script>"),
                 "<style", "</style>")

\* s.replace(/p/g, r) for a literal p, searched in hay (s itself, or s in
\* lower case for the flag i), from position i
RECURSIVE ReplaceAllFrom(_, _, _, _, _)
ReplaceAllFrom(s, hay, p, r, i) ==
    LET at == Find(hay, p, i)
    IN  IF at = 0 THEN From(s, i)
        ELSE SubSeq(s, i, at - 1) \o r \o ReplaceAllFrom(s, hay, p, r, at + Len(p))

ReplaceAll(s, p, r) == ReplaceAllFrom(s, s, p, r, 1)

ReplaceAllIgnoreCase(s, p, r) == ReplaceAllFrom(s, LowerText(s), p, r, 1)

\* s.replace(/<[^>]+>/g, '') from position i
RECURSIVE StripTags(_, _)
StripTags(s, i) ==
    LET o == Find(s, "<", i)
        g == IF o = 0 THEN 0 ELSE Find(s, ">", o + 1)
    IN  IF o = 0 \/ g = 0 THEN From(s, i)
        ELSE IF g = o + 1 THEN SubSeq(s, i, o) \o StripTags(s, o + 1)
        ELSE SubSeq(s, i, o - 1) \o StripTags(s, g + 1)

WhiteSpace == " \t\n"

\* First position at or after from that holds no white space
NextNonSpace(s, from) ==
    LET at == {i \in Max({from, 1})..Len(s) : ~IsSpace(CharAt(s, i))}
    IN  IF at = {} THEN Len(s) + 1 ELSE CHOOSE i \in at : \A j \in at : i <= j

\* .replace(/\r?\n/g, ' ').replace(/\s+/g, ' ') from position i: every run
\* of white space becomes one blank
RECURSIVE CollapseSpaces(_, _)
CollapseSpaces(s, i) ==
    LET sp == FindAny(s, WhiteSpace, i)
    IN  IF sp > Len(s) THEN From(s, i)
        ELSE SubSeq(s, i, sp - 1) \o " " \o CollapseSpaces(s, NextNonSpace(s, sp))

\* The entity replacements of stripHtml, in their order
DecodeEntities(s) ==
    ReplaceAll(ReplaceAll(ReplaceAll(ReplaceAll(ReplaceAll(ReplaceAll(s,
        "&nbsp;", " "), "&amp;", "&"), "&lt;", "<"), "&gt;", ">"),
        "&quot;", "\""), "&#39;", "'")

\* s.trim() of a text whose runs of white space are single blanks
TrimBlanks(s) ==
    SubSeq(s, IF StartsWith(s, " ") THEN 2 ELSE 1,
              IF EndsWith(s, " ") THEN Len(s) - 1 ELSE Len(s))

stripHtml(html) == TrimBlanks(CollapseSpaces(DecodeEntities(StripTags(html, 1)), 1))

\* First position at or after from that holds no white space
RECURSIVE SkipSpaces(_, _)
SkipSpaces(s, from) ==
    IF from <= Len(s) /\ IsSpace(CharAt(s, from)) THEN SkipSpaces(s, from + 1)
    ELSE from

\* First position at or after from that holds no digit
RECURSIVE SkipDigits(_, _)
SkipDigits(s, from) ==
    IF from <= Len(s) /\ Includes(Digits, CharAt(s, from)) THEN SkipDigits(s, from + 1)
    ELSE from

Quotes == "\"'"

\* Length of https?:\/\/tracking\.tldrnewsletter\.com matched at position i
\* of the lower-cased text, 0 when it does not match
TrackingPrefixLen(lower, i) ==
    IF StartsWithAt(lower, "https://tracking.tldrnewsletter.com", i) THEN 35
    ELSE IF StartsWithAt(lower, "http://tracking.tldrnewsletter.com", i) THEN 34
    ELSE 0

NoMatch == [ok |-> FALSE]

\* The rest of tldrLinkPattern from an href= at position h of a tag that
\* starts at position p: the quoted tracking URL, the end of the tag, the
\* content up to the first </a>
HrefMatch(s, lower, p, h, urlStart, urlEnd, gt, close) ==
    IF /\ StartsWithAt(lower, "href=", h)
       /\ Includes(Quotes, CharAt(s, h + 5))
       /\ TrackingPrefixLen(lower, urlStart) > 0
       /\ urlEnd <= Len(s)
       /\ urlEnd > urlStart + TrackingPrefixLen(lower, urlStart)
       /\ gt # 0
       /\ close # 0
    THEN [ok |-> TRUE,
          url |-> SubSeq(s, urlStart, urlEnd - 1),
          content |-> SubSeq(s, gt + 1, close - 1),
          position |-> p,
          endPosition |-> close + 4]
    ELSE NoMatch

GtAfter(s, urlEnd) == IF urlEnd > Len(s) THEN 0 ELSE Find(s, ">", urlEnd + 1)

CloseAfter(lower, gt) == IF gt = 0 THEN 0 ELSE Find(lower, "</a>", gt + 1)

HrefAt(s, lower, p, h, urlEnd) ==
    HrefMatch(s, lower, p, h, h + 6, urlEnd, GtAfter(s, urlEnd),
              CloseAfter(lower, GtAfter(s, urlEnd)))

\* <a[^>]*href=...: [^>]* is greedy, so of the href= inside the tag (before
\* its first ">") the last one that lets the rest match is taken
RECURSIVE LastHref(_, _, _, _)
LastHref(s, lower, p, h) ==
    LET match == HrefAt(s, lower, p, h,
                        FindAny(s, Quotes, h + 6 + TrackingPrefixLen(lower, h + 6)))
    IN  IF h < p + 2 THEN NoMatch
        ELSE IF StartsWithAt(lower, "href=", h) /\ match.ok THEN match
        ELSE LastHref(s, lower, p, h - 1)

\* The match of tldrLinkPattern that starts at the "<a" at position p
LinkMatchAt(s, lower, p) ==
    LastHref(s, lower, p, FindAny(s, ">", p + 2) - 1)

\* The loop of tldrLinkPattern.exec from position from: the matches in
\* document order
RECURSIVE ExecLinks(_, _, _)
ExecLinks(s, lower, from) ==
    LET p == Find(lower, "<a", from)
        match == LinkMatchAt(s, lower, p)
    IN  IF p = 0 THEN <<>>
        ELSE IF match.ok
        THEN <<match>> \o ExecLinks(s, lower, match.endPosition)
        ELSE ExecLinks(s, lower, p + 1)

\* The phrases of invalidPatterns, by the shape of their pattern
WholePhrases ==
    {"sign up", "advertise", "view online", "read more", "click here",
     "subscribe", "unsubscribe", "view in browser", "sponsor", "advertisement",
     "ad", "tldr", "share", "forward", "manage preferences", "privacy policy"}

PrefixPhrases == {"terms", "together with", "apply to", "claim your"}

InnerPhrases == {"(sponsor)", "early-stage startup", "free year", "free for"}

\* /^\d+$/
AllDigits(t) == t # "" /\ SkipDigits(t, 1) > Len(t)

\* invalidPatterns.some(pattern => pattern.test(t)), t in lower case
Denylisted(t) ==
    \/ t \in WholePhrases
    \/ AllDigits(t)
    \/ \E ph \in PrefixPhrases : StartsWith(t, ph)
    \/ \E ph \in InnerPhrases : Includes(t, ph)

MinLinkText == 10
MaxLinkText == 300

isValidArticleTitle(title) ==
    IF Len(title) < MinLinkText \/ Len(title) > MaxLinkText THEN FALSE
    ELSE ~Denylisted(LowerText(Trim(title)))

\* rawContent.match(/^(.+?)\s*\((\d+)\s*min(?:ute)?\s*read\)\s*$/i) with the
\* last "(" at position q, the digits ending before dEnd and "min" expected
\* at position m: <<title group, digits>>, or <<>> when there is no match
TitleMatchAt(raw, lower, q, dEnd, m, afterMin) ==
    IF /\ q > 1
       /\ dEnd > q + 1
       /\ StartsWithAt(lower, "min", m)
       /\ StartsWithAt(lower, "read)", SkipSpaces(raw, afterMin))
       /\ SkipSpaces(raw, SkipSpaces(raw, afterMin) + 5) > Len(raw)
    THEN <<TrimEnd(SubSeq(raw, 1, q - 1)), SubSeq(raw, q + 1, dEnd - 1)>>
    ELSE <<>>

AfterMin(lower, m) == IF StartsWithAt(lower, "minute", m) THEN m + 6 ELSE m + 3

TitleMatchFrom(raw, lower, q, dEnd) ==
    TitleMatchAt(raw, lower, q, dEnd, SkipSpaces(raw, dEnd),
                 AfterMin(lower, SkipSpaces(raw, dEnd)))

TitleMatch(raw) ==
    TitleMatchFrom(raw, LowerText(raw), LastIndexOf(raw, "("),
                   SkipDigits(raw, LastIndexOf(raw, "(") + 1))

\* truncateText(text, maxLength)
truncateText(text, maxLength) ==
    IF Len(text) <= maxLength THEN text
    ELSE IF 10 * (LastIndexOf(SubSeq(text, 1, maxLength), ".") - 1) > 6 * maxLength
    THEN SubSeq(text, 1, LastIndexOf(SubSeq(text, 1, maxLength), "."))
    ELSE Trim(SubSeq(text, 1, maxLength)) \o "..."

MaxDescription == 500
MinSpanText == 20

\* The rest of the span pattern from a style=" at position st of a tag that
\* starts at p: the value holding font-family, the end of the tag, the
\* content up to the first </span>
StyleMatch(s, lower, st, valEnd, gt, close) ==
    IF /\ StartsWithAt(lower, "style=\"", st)
       /\ valEnd # 0
       /\ Find(SubSeq(lower, st + 7, valEnd - 1), "font-family", 1) # 0
       /\ gt # 0
       /\ close # 0
    THEN <<SubSeq(s, gt + 1, close - 1)>>
    ELSE <<>>

SpanCloseAfter(lower, gt) == IF gt = 0 THEN 0 ELSE Find(lower, "</span>", gt + 1)

StyleAt(s, lower, st, valEnd) ==
    StyleMatch(s, lower, st, valEnd,
               IF valEnd = 0 THEN 0 ELSE Find(s, ">", valEnd + 1),
               SpanCloseAfter(lower, IF valEnd = 0 THEN 0 ELSE Find(s, ">", valEnd + 1)))

\* <span[^>]*style=": of the style=" before the first ">" of the tag the
\* last one that lets the rest match
RECURSIVE LastStyle(_, _, _, _)
LastStyle(s, lower, p, st) ==
    LET match == StyleAt(s, lower, st, Find(s, "\"", st + 7))
    IN  IF st < p + 5 THEN <<>>
        ELSE IF StartsWithAt(lower, "style=\"", st) /\ match # <<>> THEN match
        ELSE LastStyle(s, lower, p, st - 1)

\* html.match(span pattern): <<content of the first span that matches>>
RECURSIVE SpanMatch(_, _, _)
SpanMatch(s, lower, from) ==
    LET p == Find(lower, "<span", from)
        match == LastStyle(s, lower, p, FindAny(s, ">", p + 5) - 1)
    IN  IF p = 0 THEN <<>>
        ELSE IF match # <<>> THEN match
        ELSE SpanMatch(s, lower, p + 1)

\* First position at or after from that holds none of , . -
RECURSIVE SkipPunct(_, _)
SkipPunct(s, from) ==
    IF from <= Len(s) /\ Includes(",.-", CharAt(s, from)) THEN SkipPunct(s, from + 1)
    ELSE from

\* text.replace(/^\s*[,.\-]+\s*/, '')
StripLeadingPunct(text) ==
    IF SkipPunct(text, SkipSpaces(text, 1)) > SkipSpaces(text, 1)
    THEN From(text, SkipSpaces(text, SkipPunct(text, SkipSpaces(text, 1))))
    ELSE text

\* The fallback of extractDescription
FallbackDescription(html) ==
    truncateText(
        Trim(StripLeadingPunct(
            ReplaceAllIgnoreCase(
                ReplaceAllIgnoreCase(stripHtml(html), "[sponsor]", ""),
                "sponsor", ""))),
        MaxDescription)

DescriptionFrom(html, spanMatch) ==
    IF spanMatch # <<>> /\ Len(stripHtml(spanMatch[1])) > MinSpanText
    THEN truncateText(stripHtml(spanMatch[1]), MaxDescription)
    ELSE FallbackDescription(html)

extractDescription(html) ==
    DescriptionFrom(html, SpanMatch(html, LowerText(html), 1))

TLDR_SECTIONS ==
    <<"Headlines & Launches", "Deep Dives & Analysis", "Engineering & Resources",
      "Quick Links", "Big Tech & Startups", "Science & Futuristic Technology",
      "Programming, Design & Data Science", "Miscellaneous",
      "Opinions & Tutorials", "Launches & Tools", "Articles & Tutorials",
      "News & Trends">>

LowerSections == [k \in 1..Len(TLDR_SECTIONS) |-> LowerText(TLDR_SECTIONS[k])]

\* The loop of findSection from the k-th section name over the text before
\* the link, in lower case: the first name of the list that occurs in it,
\* NoString (undefined) when none does
RECURSIVE SectionLoop(_, _)
SectionLoop(lowerBefore, k) ==
    IF k > Len(TLDR_SECTIONS) THEN NoString
    ELSE IF Find(lowerBefore, LowerSections[k], 1) # 0 THEN TLDR_SECTIONS[k]
    ELSE SectionLoop(lowerBefore, k + 1)

findSection(html, position) ==
    SectionLoop(LowerText(SubSeq(html, 1, position - 1)), 1)

\* url.match(/https?%3A%2F%2F[^/]+/i): <<the leftmost match>>, or <<>>
EncodedHostMatch(url, lower) ==
    LET at == {i \in 1..Len(url) :
                  /\ EncodedSchemeLen(lower, i) > 0
                  /\ i + EncodedSchemeLen(lower, i) <= Len(url)
                  /\ CharAt(url, i + EncodedSchemeLen(lower, i)) # "/"}
    IN  IF at = {} THEN <<>>
        ELSE <<SubSeq(url, Min(at), FindAny(url, "/", Min(at) + 13) - 1)>>

\* normalizeTrackingUrl(url): <<the key>>, or <<>> when decodeURIComponent
\* throws a URIError, which nothing in the parser catches
TrackingKey(url, match) ==
    IF match = <<>> THEN <<LowerText(url)>>
    ELSE IF WellEscaped(match[1]) THEN <<LowerText(PercentDecode(match[1]))>>
    ELSE <<>>

normalizeTrackingUrl(url) == TrackingKey(url, EncodedHostMatch(url, LowerText(url)))

\* The filter of deduplicateByUrl over the articles from the i-th on, seen
\* being the keys met so far
RECURSIVE FilterSeen(_, _, _)
FilterSeen(articles, i, seen) ==
    IF i > Len(articles) THEN <<>>
    ELSE IF normalizeTrackingUrl(articles[i].url)[1] \in seen
    THEN FilterSeen(articles, i + 1, seen)
    ELSE <<articles[i]>>
         \o FilterSeen(articles, i + 1, seen \cup {normalizeTrackingUrl(articles[i].url)[1]})

\* What a call that may throw returns when it returns
Returned(value) == [returned |-> value]

\* deduplicateByUrl(articles): the articles kept, or Threw when
\* normalizeTrackingUrl throws for one of them (every article has a url)
deduplicateByUrl(articles) ==
    IF \E i \in 1..Len(articles) : normalizeTrackingUrl(articles[i].url) = <<>>
    THEN Threw
    ELSE Returned(FilterSeen(articles, 1, {}))

\* The first loop of extractArticles: the matches whose text is a valid
\* article title, each with its textContent
RECURSIVE ValidLinks(_, _)
ValidLinks(matches, i) ==
    IF i > Len(matches) THEN <<>>
    ELSE IF isValidArticleTitle(Trim(stripHtml(matches[i].content)))
    THEN <<[url |-> matches[i].url,
            textContent |-> Trim(stripHtml(matches[i].content)),
            position |-> matches[i].position,
            endPosition |-> matches[i].endPosition]>>
         \o ValidLinks(matches, i + 1)
    ELSE ValidLinks(matches, i + 1)

MinTitle == 10
MinDescription == 20

\* The candidate of a link from its title match, description and section
CandidateOf(link, titleMatch, description, section) ==
    [title |-> IF titleMatch = <<>> THEN link.textContent ELSE Trim(titleMatch[1]),
     url |-> link.url,
     summary |-> description,
     source_name |-> "TL;DR Newsletter",
     extraction_method |-> "email_links",
     reading_time |-> IF titleMatch = <<>> THEN NoString
                      ELSE titleMatch[2] \o " min read",
     section |-> section]

\* The second loop without its filter on the two lengths
PushIfLongEnough_unfiltered(candidate) == <<candidate>>

\* What the second loop pushes for one candidate
PushIfLongEnough(candidate) ==
    IF Len(candidate.title) > MinTitle /\ Len(candidate.summary) > MinDescription
    THEN <<candidate>>
    ELSE <<>>

\* The second loop of extractArticles from the i-th link on
RECURSIVE ArticlesFrom(_, _, _)
ArticlesFrom(cleanHtml, linkMatches, i) ==
    IF i > Len(linkMatches) THEN <<>>
    ELSE PushIfLongEnough(
             CandidateOf(linkMatches[i],
                         TitleMatch(linkMatches[i].textContent),
                         extractDescription(
                             SubSeq(cleanHtml, linkMatches[i].endPosition,
                                    IF i < Len(linkMatches)
                                    THEN linkMatches[i + 1].position - 1
                                    ELSE Len(cleanHtml))),
                         findSection(cleanHtml, linkMatches[i].position)))
         \o ArticlesFrom(cleanHtml, linkMatches, i + 1)

\* The articles of extractArticles before deduplicateByUrl
ArticlesOf(cleanHtml) ==
    ArticlesFrom(cleanHtml,
                 ValidLinks(ExecLinks(cleanHtml, LowerText(cleanHtml), 1), 1), 1)

extractArticles(html) == deduplicateByUrl(ArticlesOf(CleanHtml(html)))

\* The civil date of a day number (days from 1970-01-01), as <<y, m, d>>
CivilFromDays(days) ==
    LET z == days + 719468
        era == z \div 146097
        doe == z - era * 146097
        yoe == (doe - doe \div 1460 + doe \div 36524 - doe \div 146096) \div 365
        doy == doe - (365 * yoe + yoe \div 4 - yoe \div 100)
        mp == (5 * doy + 2) \div 153
        d == doy - (153 * mp + 2) \div 5 + 1
        m == IF mp < 10 THEN mp + 3 ELSE mp - 9
    IN  <<yoe + era * 400 + (IF m <= 2 THEN 1 ELSE 0), m, d>>

\* n in decimal, at least width digits
RECURSIVE Pad(_, _)
Pad(n, width) ==
    IF width <= 1 /\ n < 10 THEN CharAt(Digits, n + 1)
    ELSE Pad(n \div 10, width - 1) \o CharAt(Digits, (n % 10) + 1)

\* date.toISOString().split('T')[0] of the date at a day number
IsoDay(days) ==
    Pad(CivilFromDays(days)[1], 4) \o "-" \o Pad(CivilFromDays(days)[2], 2)
        \o "-" \o Pad(CivilFromDays(days)[3], 2)

DaysInMonth(y, m) ==
    IF m = 2 THEN (IF y % 4 = 0 /\ (y % 100 # 0 \/ y % 400 = 0) THEN 29 ELSE 28)
    ELSE IF m \in {4, 6, 9, 11} THEN 30 ELSE 31

\* new Date(dateString) for the date strings of the model, which are
\* YYYY-MM-DD, YYYY-MM-DDTHH:MM:SSZ, or strings no date parser accepts:
\* <<the day number of the date in UTC>>, or <<>> for an Invalid Date
NewDate(dateString) ==
    IF /\ Len(dateString) \in {10, 20}
       /\ AllDigits(SubSeq(dateString, 1, 4))
       /\ CharAt(dateString, 5) = "-"
       /\ AllDigits(SubSeq(dateString, 6, 7))
       /\ CharAt(dateString, 8) = "-"
       /\ AllDigits(SubSeq(dateString, 9, 10))
       /\ ParseDigits(SubSeq(dateString, 6, 7), 0) \in 1..12
       /\ ParseDigits(SubSeq(dateString, 9, 10), 0)
              \in 1..DaysInMonth(ParseDigits(SubSeq(dateString, 1, 4), 0),
                                 ParseDigits(SubSeq(dateString, 6, 7), 0))
       /\ Len(dateString) = 20 =>
              /\ CharAt(dateString, 11) = "T"
              /\ AllDigits(SubSeq(dateString, 12, 13))
              /\ CharAt(dateString, 14) = ":"
              /\ AllDigits(SubSeq(dateString, 15, 16))
              /\ CharAt(dateString, 17) = ":"
              /\ AllDigits(SubSeq(dateString, 18, 19))
              /\ CharAt(dateString, 20) = "Z"
              /\ ParseDigits(SubSeq(dateString, 12, 13), 0) < 24
              /\ ParseDigits(SubSeq(dateString, 15, 16), 0) < 60
              /\ ParseDigits(SubSeq(dateString, 18, 19), 0) < 60
    THEN <<DateTime(dateString)>>
    ELSE <<>>

\* parseEmailDate(dateString) when the clock reads the day number today:
\* toISOString throws a RangeError for an Invalid Date, and the catch
\* branch formats the current date
parseEmailDate(dateString, today) ==
    IF NewDate(dateString) # <<>> THEN IsoDay(NewDate(dateString)[1])
    ELSE IsoDay(today)

Parsed(message, publishedAt, candidates) ==
    IF candidates = Threw THEN Threw
    ELSE [newsletter_source |-> "tldr",
          email_subject |-> message.subject,
          published_at |-> publishedAt,
          candidates |-> candidates.returned]

\* TLDRParser.parse(message) when the clock reads today: the
\* ParsedNewsletter, or Threw
parse(message, today) ==
    Parsed(message, parseEmailDate(message.date, today),
           IF message.htmlBody # "" THEN extractArticles(message.htmlBody)
           ELSE IF message.textBody # "" THEN extractArticles(message.textBody)
           ELSE Returned(<<>>))

\* The messages parsed: bodies put together from a few blocks of a TL;DR
\* email (section headings, tracked links with their description, links the
\* parser is to pass over, markup that is cut short)
MaxBlocks == 2

Tracked(destination) == "https://tracking.tldrnewsletter.com/CL0/" \o destination

Anchor(url, text) == "<a href=\"" \o url \o "\">" \o text \o "</a>"

Described(text) == "<span style=\"font-family:Arial\">" \o text \o "</span>"

\* 301 characters
LongTitle ==
    LET ten == "abcdefghij"
        fifty == ten \o ten \o ten \o ten \o ten
    IN  fifty \o fifty \o fifty \o fifty \o fifty \o fifty \o "k"

BlockChoices ==
    { "<h2>Quick Links</h2>",
      "<h2>MISCELLANEOUS</h2>",
      "<h2>Miscellaneous</h2>"
          \o Anchor(Tracked("https%3A%2F%2Fg.io"), "Odds and ends of the week")
          \o Described("Everything that fits nowhere else."),
      Anchor(Tracked("https%3A%2F%2Fa.io%2Fx/1"), "<b>Rust 2.0 is out</b> (5 minute read)")
          \o Described("The new edition ships today."),
      Anchor(Tracked("HTTPS%3A%2F%2FA.io%2Fx/2"), "Rust 2.0 released")
          \o " The edition is &quot;out&quot; now. ",
      Anchor(Tracked("https%3A%2F%2Fb.io%2F%ZZ"), "A broken tracking link")
          \o Described("Its destination cannot be decoded."),
      Anchor(Tracked("https%3A%2F%2Fc.io"), "Tiny title (5 min read)")
          \o Described("A title of ten characters."),
      Anchor(Tracked("https%3A%2F%2Fd.io"), "Good title, short text")
          \o Described("Too short."),
      Anchor(Tracked("https%3A%2F%2Fe.io"), LongTitle)
          \o Described("A title of 301 characters."),
      Anchor(Tracked("unsubscribe"), "Unsubscribe"),
      Anchor(Tracked("https%3A%2F%2Fh.io"), "Terms of the new deal")
          \o Described("What the contract says in full.")
          \o Anchor(Tracked("https%3A%2F%2Fi.io"), "Tools free for students")
          \o Described("Every campus gets a licence."),
      "<a href=\"https://tracking.tldrnewsletter.com/f\"><b>Cut short <!-- here" }

RECURSIVE Bodies(_)
Bodies(n) ==
    IF n = 0 THEN {""}
    ELSE Bodies(n - 1) \cup {body \o block : body \in Bodies(n - 1), block \in BlockChoices}

MessageDates == {"2024-03-01T10:00:00Z", "not a date"}

GmailMessage(date, htmlBody, textBody) ==
    [subject |-> "TLDR", from |-> "TLDR <dan@tldrnewsletter.com>",
     date |-> date, htmlBody |-> htmlBody, textBody |-> textBody]

\* A message has an html body, or a text body only, or neither
MessageChoices ==
    {GmailMessage(date, body, "Quick Links") : date \in MessageDates, body \in Bodies(MaxBlocks)}
        \cup {GmailMessage(date, "", body) : date \in {"2024-02-29", ""},
                                             body \in Bodies(1)}

FirstDay == 19800
MaxDaysLater == 1

TldrInputs ==
    /\ tMsg \in MessageChoices
    /\ tClock = FirstDay
    /\ tOut = None
    /\ tOut2 = None
    /\ tpc = "ready"

Parse ==
    /\ tpc = "ready"
    /\ tOut' = parse(tMsg, tClock)
    /\ tpc' = "parsed"
    /\ UNCHANGED <<tMsg, tClock, tOut2>>
    /\ UNCHANGED exceptTldr

\* A day passes between the two calls
Tick ==
    /\ tpc = "parsed"
    /\ tClock < FirstDay + MaxDaysLater
    /\ tClock' = tClock + 1
    /\ UNCHANGED <<tMsg, tOut, tOut2, tpc>>
    /\ UNCHANGED exceptTldr

ParseAgain ==
    /\ tpc = "parsed"
    /\ tOut2' = parse(tMsg, tClock)
    /\ tpc' = "done"
    /\ UNCHANGED <<tMsg, tClock, tOut>>
    /\ UNCHANGED exceptTldr

TldrInit ==
    /\ TldrInputs
    /\ RegInit /\ CanonIdle /\ DedupIdle /\ SemIdle /\ CosIdle /\ QuickIdle /\ PipeIdle
    /\ ResIdle

TldrNext == Parse \/ Tick \/ ParseAgain

SpecTldr == TldrInit /\ [][TldrNext]_vars

(***************************************************************************)
(* Claims about TLDRParser.parse.                                          *)
(***************************************************************************)

\* C12. parse never throws, whatever the message (malformed HTML, a date
\* that cannot be parsed, a tracking URL whose percent-encoding cannot be
\* decoded), and a message whose htmlBody and textBody are both empty gives
\* a ParsedNewsletter with zero candidates.
C12_ParseNeverThrows ==
    tpc \in {"parsed", "done"} =>
        /\ tOut # Threw
        /\ (tMsg.htmlBody = "" /\ tMsg.textBody = "") => tOut.candidates = <<>>

\* The body parse reads, cleaned, and the links that survive the title check
BodyRead == CleanHtml(IF tMsg.htmlBody # "" THEN tMsg.htmlBody ELSE tMsg.textBody)

SurvivingLinks == ValidLinks(ExecLinks(BodyRead, LowerText(BodyRead), 1), 1)

\* The title of the i-th surviving link once the reading time is split off,
\* and the description found between it and the next surviving link
SplitTitle(i) ==
    IF TitleMatch(SurvivingLinks[i].textContent) = <<>>
    THEN SurvivingLinks[i].textContent
    ELSE Trim(TitleMatch(SurvivingLinks[i].textContent)[1])

DescriptionAfter(i) ==
    extractDescription(SubSeq(BodyRead, SurvivingLinks[i].endPosition,
                              IF i < Len(SurvivingLinks)
                              THEN SurvivingLinks[i + 1].position - 1
                              ELSE Len(BodyRead)))

\* The surviving links whose title and description pass the bounds of the
\* candidates, and where the link a candidate comes from starts in the
\* cleaned document: the first of them that carries the candidate's url
PassingLinks ==
    {i \in 1..Len(SurvivingLinks) :
        Len(SplitTitle(i)) > 10 /\ Len(DescriptionAfter(i)) > 20}

LinkOffset(url) ==
    LET from == {i \in PassingLinks : SurvivingLinks[i].url = url}
    IN  IF from = {} THEN 0 ELSE SurvivingLinks[Min(from)].position

ParseReturned == tpc = "parsed" /\ tOut # Threw

\* C13. Every candidate parse returns has extraction_method 'email_links',
\* a url that is not null, a title of more than 10 and at most 300
\* characters and a summary of more than 20 characters; a surviving link
\* whose title (reading time split off) or description fails these bounds
\* gives no candidate; the candidates come in the document order of their
\* links.  The last two parts say that the candidates can be assigned, in
\* increasing order, to surviving links that pass the bounds and carry
\* their url and title.
C13_CandidatesWithinBoundsInOrder ==
    ParseReturned =>
        LET links == SurvivingLinks
            n == Len(tOut.candidates)
            passing == PassingLinks
        IN  /\ \A i \in 1..n :
                  /\ tOut.candidates[i].extraction_method = "email_links"
                  /\ tOut.candidates[i].url \notin {Null, NoString, ""}
                  /\ Len(tOut.candidates[i].title) > 10
                  /\ Len(tOut.candidates[i].title) <= 300
                  /\ Len(tOut.candidates[i].summary) > 20
            /\ \E origin \in [1..n -> passing] :
                  /\ \A j \in 1..n :
                        /\ tOut.candidates[j].url = links[origin[j]].url
                        /\ tOut.candidates[j].title = SplitTitle(origin[j])
                  /\ \A j, k \in 1..n : j < k => origin[j] < origin[k]

\* Two links gave two candidates
C13_Witness ==
    /\ ParseReturned
    /\ Len(tOut.candidates) = 2
    /\ Len(SurvivingLinks) = 2
    /\ tOut.candidates[1].reading_time # NoString

\* C17. parse is deterministic: two calls with the same message return the
\* same ParsedNewsletter, published_at included, whenever each call happens.
C17_ParseDeterministic == tpc = "done" => tOut2 = tOut

\* The known section names that occur in the cleaned document before an
\* offset, and the one among them whose last occurrence is the latest
SectionsBefore(offset) ==
    {k \in 1..Len(TLDR_SECTIONS) :
        Find(LowerText(SubSeq(BodyRead, 1, offset - 1)), LowerSections[k], 1) # 0}

LatestSectionBefore(offset) ==
    IF SectionsBefore(offset) = {} THEN NoString
    ELSE TLDR_SECTIONS[
             CHOOSE k \in SectionsBefore(offset) :
                 \A m \in SectionsBefore(offset) :
                     LastIndexOf(LowerText(SubSeq(BodyRead, 1, offset - 1)), LowerSections[k])
                         >= LastIndexOf(LowerText(SubSeq(BodyRead, 1, offset - 1)), LowerSections[m])]

\* C20. The section of a candidate is the known section name whose
\* occurrence is the latest one before the start of the candidate's link,
\* whatever the order of the names in TLDR_SECTIONS, and is absent when no
\* known name occurs before the link.
C20_SectionIsLatestBeforeLink ==
    ParseReturned =>
        \A i \in 1..Len(tOut.candidates) :
            tOut.candidates[i].section
                = LatestSectionBefore(LinkOffset(tOut.candidates[i].url))

(***************************************************************************)
(* Claim about the candidates without a URL in deduplicateCandidatesByUrl. *)
(***************************************************************************)

\* C19. Among the candidates with a null url whose lower-cased, trimmed
\* titles are equal, the one kept is the member greatest in the preference
\* order (not inferred, has content, longer title, longer summary, the
\* earliest among equals), so that a later inline candidate with content
\* replaces an earlier one without.
C19_InlinePreference ==
    dpc = "done" =>
        \A i \in 1..Len(dOut) :
            (\A j \in GroupOf(DedupKey(dOut[i])) : dCands[j].url = Null)
            => dOut[i] = dCands[Preferred(DedupKey(dOut[i]))]

(***************************************************************************)
(* Claim about deduplicateArticles with fewer than two articles.           *)
(***************************************************************************)

\* C18. deduplicateArticles called with fewer than 2 articles returns the
\* input articles unchanged as uniqueArticles, an empty duplicateGroups and
\* removedCount 0, and does not call the embedding function.
C18_FewArticlesSkipped ==
    (spc = "done" /\ Len(sArticles) < 2) =>
        /\ sResult # Threw
        /\ sResult.uniqueArticles = sArticles
        /\ sResult.duplicateGroups = <<>>
        /\ sResult.removedCount = 0
        /\ sCalls = 0

\* The call returned for a single article
C18_Witness ==
    /\ spc = "done"
    /\ Len(sArticles) = 1
    /\ sResult.uniqueArticles = sArticles
    /\ sCalls = 0

(***************************************************************************)
(* quickDeduplicateByUrl.                                                  *)
(***************************************************************************)

\* s.replace(/^https?:\/\//, '')
StripScheme(s) ==
    IF StartsWith(s, "https://") THEN From(s, 9)
    ELSE IF StartsWith(s, "http://") THEN From(s, 8)
    ELSE s

\* s.replace(/\/+$/, '')
RECURSIVE StripTrailingSlashes(_)
StripTrailingSlashes(s) ==
    IF EndsWith(s, "/") THEN StripTrailingSlashes(SubSeq(s, 1, Len(s) - 1)) ELSE s

\* s.replace(/\?.*$/, '')
StripQuery(s) == IF IndexOf(s, "?") = 0 THEN s ELSE SubSeq(s, 1, IndexOf(s, "?") - 1)

\* normalizedUrl of an article
QuickKey(source_url) ==
    StripQuery(StripTrailingSlashes(StripScheme(ToLowerCase(source_url))))

\* The for loop from the i-th article on, seen being the keys met so far
RECURSIVE QuickLoop(_, _, _)
QuickLoop(articles, i, seen) ==
    IF i > Len(articles) THEN <<>>
    ELSE IF QuickKey(articles[i].source_url) \in seen
    THEN QuickLoop(articles, i + 1, seen)
    ELSE <<articles[i]>>
         \o QuickLoop(articles, i + 1, seen \cup {QuickKey(articles[i].source_url)})

\* The loop with nothing ever found in seen
quickDeduplicateByUrl_keepAll(articles) == articles

quickDeduplicateByUrl(articles) == QuickLoop(articles, 1, {})

MaxQuickArticles == 3

SourceUrlChoices ==
    {"https://a.com/x", "http://A.com/x/", "a.com/x?ref=1", "HTTPS://a.com/x//",
     "https://a.com/x/?q=1", "https://b.com/"}

StoredArticle(id, source_url) ==
    [id |-> id, title |-> "Title", summary |-> "Summary", source_url |-> source_url,
     newsletter_date |-> "2024-03-01"]

QuickInputs ==
    /\ qArticles = <<>>
    /\ qOut = <<>>
    /\ qpc = "collect"

\* One more article in the list quickDeduplicateByUrl is called with
AddQuickArticle ==
    /\ qpc = "collect"
    /\ Len(qArticles) < MaxQuickArticles
    /\ \E source_url \in SourceUrlChoices :
          qArticles' = Append(qArticles, StoredArticle(Len(qArticles) + 1, source_url))
    /\ UNCHANGED <<qOut, qpc>>
    /\ UNCHANGED exceptQuick

QuickDeduplicate ==
    /\ qpc = "collect"
    /\ qOut' = quickDeduplicateByUrl(qArticles)
    /\ qpc' = "done"
    /\ UNCHANGED qArticles
    /\ UNCHANGED exceptQuick

QuickInit ==
    /\ QuickInputs
    /\ RegInit /\ CanonIdle /\ DedupIdle /\ SemIdle /\ CosIdle /\ TldrIdle /\ PipeIdle
    /\ ResIdle

QuickNext == AddQuickArticle \/ QuickDeduplicate

SpecQuick == QuickInit /\ [][QuickNext]_vars

\* The positions of the input articles with a key, and the first of them
QuickGroup(key) == {i \in 1..Len(qArticles) : QuickKey(qArticles[i].source_url) = key}

FirstWithKey(key) == CHOOSE i \in QuickGroup(key) : \A j \in QuickGroup(key) : i <= j

\* C16. quickDeduplicateByUrl keeps, for every normalized URL key, exactly
\* the first article of the input with that key, drops every later article
\* with the key, and returns the kept articles in their input order.
C16_FirstPerKeyInInputOrder ==
    qpc = "done" =>
        /\ Len(qOut) = Cardinality({QuickKey(qArticles[i].source_url) : i \in 1..Len(qArticles)})
        /\ \A i \in 1..Len(qArticles) :
              (\E k \in 1..Len(qOut) : qOut[k] = qArticles[i])
                  <=> i = FirstWithKey(QuickKey(qArticles[i].source_url))
        /\ \A k, m \in 1..Len(qOut) :
              k < m => qOut[k].id < qOut[m].id

\* Three articles, the first and the third with one key under different
\* spellings, the second with another: the first two are kept
C16_Witness ==
    /\ qpc = "done"
    /\ Len(qArticles) = 3
    /\ qArticles[1].source_url # qArticles[3].source_url
    /\ QuickKey(qArticles[1].source_url) = QuickKey(qArticles[3].source_url)
    /\ QuickKey(qArticles[2].source_url) # QuickKey(qArticles[1].source_url)
    /\ qOut = <<qArticles[1], qArticles[2]>>

(***************************************************************************)
(* runAggregationPipeline: processNewsletters over the fetched emails      *)
(* (parsing, the canonical-URL dedup and the save loop against the         *)
(* articles table), then the articles of the date range, the exact-URL     *)
(* dedup, the semantic dedup, and the aggregation row.                     *)
(***************************************************************************)

\* parserRegistry once parsers/index.ts is loaded
DefaultRegistry == register(<<>>, DefaultRegistration)

MessageFrom(from, date, htmlBody) ==
    [GmailMessage(date, htmlBody, "") EXCEPT !.from = from]

\* The emails fetchTLDREmails may return: an issue with the story A, a later
\* issue with the story A under another tracking link and the story B, a
\* message of a sender no parser is registered for, and an issue with a
\* tracking link that cannot be decoded
IssueOne ==
    MessageFrom("TLDR <dan@tldrnewsletter.com>", "2024-03-01T10:00:00Z",
                Anchor(StoryA, "Rust 2.0 is out (5 minute read)")
                    \o Described("The new edition ships today."))

IssueTwo ==
    MessageFrom("TLDR AI <hi@TLDR.tech>", "2024-03-02T09:00:00Z",
                Anchor(StoryA2, "Rust 2.0 released")
                    \o Described("The edition is out for everyone.")
                    \o Anchor(StoryB, "Zig gets a package manager")
                    \o Described("Packages arrive in the toolchain."))

Unrouted ==
    MessageFrom("News <news@other.com>", "2024-03-02T09:00:00Z",
                Anchor(StoryB, "Zig gets a package manager")
                    \o Described("Packages arrive in the toolchain."))

Undecodable ==
    MessageFrom("TLDR <dan@tldrnewsletter.com>", "2024-03-03T09:00:00Z",
                Anchor(Tracked("https%3A%2F%2Fb.io%2F%ZZ"), "A broken tracking link")
                    \o Described("Its destination cannot be decoded."))

PipelineMessages == {IssueOne, IssueTwo, Unrouted, Undecodable}

\* matchResult.parser.parse(message) for the emails above; their dates
\* parse, so the result does not depend on the day of the call
ParsedMessage == [message \in PipelineMessages |-> parse(message, FirstDay)]

\* The candidates pushed to allCandidates for a parsed newsletter
RECURSIVE WithNewsletterDate(_, _, _)
WithNewsletterDate(candidates, published_at, i) ==
    IF i > Len(candidates) THEN <<>>
    ELSE <<[title |-> candidates[i].title,
            url |-> candidates[i].url,
            summary |-> candidates[i].summary,
            source_name |-> candidates[i].source_name,
            extraction_method |-> candidates[i].extraction_method,
            reading_time |-> candidates[i].reading_time,
            section |-> candidates[i].section,
            newsletter_date |-> published_at]>>
         \o WithNewsletterDate(candidates, published_at, i + 1)

\* articleExistsByUrl(url)
articleExistsByUrl(articles, url) ==
    \E i \in 1..Len(articles) : articles[i].source_url = url

\* insertArticle(article): the row gets the next rowid
insertArticle(articles, article) ==
    Append(articles,
           [id |-> Len(articles) + 1,
            title |-> article.title,
            summary |-> article.summary,
            source_url |-> article.source_url,
            newsletter_date |-> article.newsletter_date])

\* The two existence checks of the save loop with the second one left out
AlreadyPersisted_rawOnly(articles, originalUrl, canonicalUrl) ==
    originalUrl # "" /\ articleExistsByUrl(articles, originalUrl)

\* The two existence checks of the save loop: the candidate is skipped when
\* one of them is true
AlreadyPersisted(articles, originalUrl, canonicalUrl) ==
    \/ originalUrl # "" /\ articleExistsByUrl(articles, originalUrl)
    \/ /\ canonicalUrl # ""
       /\ canonicalUrl # originalUrl
       /\ articleExistsByUrl(articles, canonicalUrl)

\* Mutant: a skipped candidate is not counted.
SaveStep_skipUncounted(articles, stats, candidate, originalUrl, canonicalUrl) ==
    IF AlreadyPersisted(articles, originalUrl, canonicalUrl)
    THEN [articles |-> articles, stats |-> stats]
    ELSE [articles |->
              insertArticle(articles,
                            [title |-> candidate.title,
                             summary |-> candidate.summary,
                             source_url |-> IF originalUrl # "" THEN originalUrl
                                            ELSE canonicalUrl,
                             newsletter_date |-> candidate.newsletter_date]),
          stats |-> [stats EXCEPT !.saved = @ + 1]]

\* One iteration of the save loop for a candidate with these two URLs: the
\* articles table and the counters after it
SaveStep(articles, stats, candidate, originalUrl, canonicalUrl) ==
    IF AlreadyPersisted(articles, originalUrl, canonicalUrl)
    THEN [articles |-> articles,
          stats |-> [stats EXCEPT !.skipped = @ + 1]]
    ELSE [articles |->
              insertArticle(articles,
                            [title |-> candidate.title,
                             summary |-> candidate.summary,
                             source_url |-> IF originalUrl # "" THEN originalUrl
                                            ELSE canonicalUrl,
                             newsletter_date |-> candidate.newsletter_date]),
          stats |-> [stats EXCEPT !.saved = @ + 1]]

\* The date range of the run, as startDateStr and endDateStr
RangeStart == "2024-03-01"
RangeEnd == "2024-03-31"

\* ORDER BY newsletter_date DESC: the row goes before the first row with an
\* earlier date (rows of one date stay in rowid order)
RECURSIVE InsertByDateDesc(_, _, _)
InsertByDateDesc(sorted, row, i) ==
    IF i > Len(sorted) THEN Append(sorted, row)
    ELSE IF DateTime(sorted[i].newsletter_date) < DateTime(row.newsletter_date)
    THEN SubSeq(sorted, 1, i - 1) \o <<row>> \o SubSeq(sorted, i, Len(sorted))
    ELSE InsertByDateDesc(sorted, row, i + 1)

\* getArticlesByDateRange(startDate, endDate) over the rows from the i-th on
RECURSIVE DateRangeLoop(_, _, _, _, _)
DateRangeLoop(articles, startDate, endDate, i, sorted) ==
    IF i > Len(articles) THEN sorted
    ELSE IF /\ DateTime(articles[i].newsletter_date) >= DateTime(startDate)
            /\ DateTime(articles[i].newsletter_date) <= DateTime(endDate)
    THEN DateRangeLoop(articles, startDate, endDate, i + 1,
                       InsertByDateDesc(sorted, articles[i], 1))
    ELSE DateRangeLoop(articles, startDate, endDate, i + 1, sorted)

getArticlesByDateRange(articles, startDate, endDate) ==
    DateRangeLoop(articles, startDate, endDate, 1, <<>>)

\* articles.map(a => a.id)
ArticleIds(articles) == [i \in 1..Len(articles) |-> articles[i].id]

MaxEmails == 2
MaxRuns == 2

RECURSIVE EmailBatches(_)
EmailBatches(n) ==
    IF n = 0 THEN {<<>>}
    ELSE EmailBatches(n - 1)
         \cup {Append(batch, message) : batch \in EmailBatches(n - 1),
                                        message \in PipelineMessages}

\* The articles table before the first run: empty, or holding the article A
\* under its canonical URL, saved before the range of the run
StoreChoices ==
    { <<>>,
      <<[id |-> 1, title |-> "Rust 2.0", summary |-> "Persisted earlier.",
         source_url |-> PersistedA, newsletter_date |-> "2024-02-29"]>> }

\* What createEmbeddings may return for an article
PipelineEmbeddings == {EmbA, EmbC}

NoStats == [processed |-> 0, saved |-> 0, skipped |-> 0, deduped |-> 0]

PipeInputs ==
    /\ store \in StoreChoices
    /\ aggregations = <<>>
    /\ pEmails = <<>>
    /\ pCandidates = <<>>
    /\ pUnique = <<>>
    /\ pStats = NoStats
    /\ pArticles = <<>>
    /\ pPasses = <<>>
    /\ pRuns = 0
    /\ ppc = "idle"

\* Step 1 of runAggregationPipeline: the emails are fetched, and
\* processNewsletters starts with no candidates
FetchEmails ==
    /\ ppc \in {"idle", "failed"}
    /\ pRuns < MaxRuns
    /\ pEmails' \in EmailBatches(MaxEmails)
    /\ pCandidates' = <<>>
    /\ pUnique' = <<>>
    /\ pStats' = NoStats
    /\ pArticles' = <<>>
    /\ pPasses' = <<>>
    /\ pRuns' = pRuns + 1
    /\ ppc' = "collect"
    /\ UNCHANGED <<store, aggregations>>
    /\ UNCHANGED exceptPipe

\* One iteration of the loop over the messages: the parser is looked up by
\* the sender and its candidates are pushed; a parse that throws rejects
\* the run
CollectMessage ==
    /\ ppc = "collect"
    /\ pEmails # <<>>
    /\ pEmails' = Tail(pEmails)
    /\ IF ~findParser(registrations, Head(pEmails).from).matched
       THEN UNCHANGED <<pCandidates, ppc>>
       ELSE IF ParsedMessage[Head(pEmails)] = Threw
       THEN ppc' = "failed" /\ UNCHANGED pCandidates
       ELSE /\ pCandidates' =
                   pCandidates
                       \o WithNewsletterDate(ParsedMessage[Head(pEmails)].candidates,
                                             ParsedMessage[Head(pEmails)].published_at, 1)
            /\ UNCHANGED ppc
    /\ UNCHANGED <<store, aggregations, pUnique, pStats, pArticles, pPasses, pRuns>>
    /\ UNCHANGED exceptPipe

\* The canonical-URL dedup of processNewsletters and its counters
DeduplicateCandidates ==
    /\ ppc = "collect"
    /\ pEmails = <<>>
    /\ pUnique' = deduplicateCandidatesByUrl(pCandidates)
    /\ pStats' = [processed |-> Len(pCandidates),
                  saved |-> 0,
                  skipped |-> 0,
                  deduped |-> Len(pCandidates) - Len(pUnique')]
    /\ pPasses' = Append(pPasses, "canonical")
    /\ ppc' = "save"
    /\ UNCHANGED <<store, aggregations, pEmails, pCandidates, pArticles, pRuns>>
    /\ UNCHANGED exceptPipe

\* One iteration of the save loop
SaveCandidate ==
    /\ ppc = "save"
    /\ pUnique # <<>>
    /\ LET saved == SaveStep(store, pStats, Head(pUnique),
                             IF HasUrl(Head(pUnique)) THEN Head(pUnique).url ELSE "",
                             IF HasUrl(Head(pUnique))
                             THEN NormalizedUrl[Head(pUnique).url] ELSE "")
       IN  /\ store' = saved.articles
           /\ pStats' = saved.stats
    /\ pUnique' = Tail(pUnique)
    /\ UNCHANGED <<aggregations, pEmails, pCandidates, pArticles, pPasses, pRuns, ppc>>
    /\ UNCHANGED exceptPipe

\* processNewsletters returns, and step 3 reads the articles of the range
LoadArticles ==
    /\ ppc = "save"
    /\ pUnique = <<>>
    /\ pArticles' = getArticlesByDateRange(store, RangeStart, RangeEnd)
    /\ ppc' = "quick"
    /\ UNCHANGED <<store, aggregations, pEmails, pCandidates, pUnique, pStats, pPasses, pRuns>>
    /\ UNCHANGED exceptPipe

\* Step 4: the exact-URL dedup
QuickPass ==
    /\ ppc = "quick"
    /\ pArticles' = quickDeduplicateByUrl(pArticles)
    /\ pPasses' = Append(pPasses, "exact")
    /\ ppc' = "semantic"
    /\ UNCHANGED <<store, aggregations, pEmails, pCandidates, pUnique, pStats, pRuns>>
    /\ UNCHANGED exceptPipe

\* Step 5 with more than one article: the semantic dedup; a rejection of
\* deduplicateArticles rejects the run
SemanticPass ==
    /\ ppc = "semantic"
    /\ Len(pArticles) > 1
    /\ \E embeddings \in [1..Len(pArticles) -> PipelineEmbeddings] :
          LET dedupResult == deduplicateArticles(pArticles, embeddings)
          IN  IF dedupResult = Threw
              THEN ppc' = "failed" /\ UNCHANGED <<pArticles, pPasses>>
              ELSE /\ pArticles' = dedupResult.uniqueArticles
                   /\ pPasses' = Append(pPasses, "semantic")
                   /\ ppc' = "summarize"
    /\ UNCHANGED <<store, aggregations, pEmails, pCandidates, pUnique, pStats, pRuns>>
    /\ UNCHANGED exceptPipe

\* Step 5 with at most one article: nothing to do
SkipSemanticPass ==
    /\ ppc = "semantic"
    /\ Len(pArticles) <= 1
    /\ ppc' = "summarize"
    /\ UNCHANGED <<store, aggregations, pEmails, pCandidates, pUnique, pStats, pArticles,
                   pPasses, pRuns>>
    /\ UNCHANGED exceptPipe

\* Steps 6 to 9: the summary and the themes are generated and the
\* aggregation is saved with the ids of the articles
SaveAggregation ==
    /\ ppc = "summarize"
    /\ aggregations' = Append(aggregations, ArticleIds(pArticles))
    /\ ppc' = "idle"
    /\ UNCHANGED <<store, pEmails, pCandidates, pUnique, pStats, pArticles, pPasses, pRuns>>
    /\ UNCHANGED exceptPipe

PipeInit ==
    /\ PipeInputs
    /\ registrations = DefaultRegistry
    /\ findHeader = NoString
    /\ findAt = -1
    /\ findResult = None
    /\ CanonIdle /\ DedupIdle /\ SemIdle /\ CosIdle /\ TldrIdle /\ QuickIdle /\ ResIdle

PipeNext ==
    \/ FetchEmails
    \/ CollectMessage
    \/ DeduplicateCandidates
    \/ SaveCandidate
    \/ LoadArticles
    \/ QuickPass
    \/ SemanticPass
    \/ SkipSemanticPass
    \/ SaveAggregation

SpecPipeline == PipeInit /\ [][PipeNext]_vars

(***************************************************************************)
(* Claims about the pipeline.                                              *)
(***************************************************************************)

\* The candidate the next iteration of the save loop is about has a URL
SavingWithUrl == ppc = "save" /\ pUnique # <<>> /\ HasUrl(Head(pUnique))

\* A persisted article has the raw URL of that candidate, or its normalized
\* URL, as source_url
SeenInStore ==
    \E i \in 1..Len(store) :
        store[i].source_url \in {Head(pUnique).url, NormalizedUrl[Head(pUnique).url]}

\* C14. processNewsletters inserts a candidate with a url only if, when it
\* is checked, neither its raw url nor normalizeUrl(url) is the source_url
\* of a persisted article; otherwise the candidate is counted as skipped and
\* the store stays as it is.
C14_InsertOnlyIfUnseen ==
    [][SavingWithUrl =>
          /\ store' # store => ~SeenInStore
          /\ SeenInStore => /\ store' = store
                            /\ pStats'.skipped = pStats.skipped + 1
                            /\ pStats'.saved = pStats.saved
          /\ ~SeenInStore => /\ Len(store') = Len(store) + 1
                             /\ SubSeq(store', 1, Len(store)) = store
                             /\ store'[Len(store')].source_url = Head(pUnique).url
                             /\ pStats'.saved = pStats.saved + 1
                             /\ pStats'.skipped = pStats.skipped]_vars

\* The save loop is through: the store held the article A under its
\* canonical URL, the candidate with a tracking link to A was skipped, the
\* candidate B was inserted
C14_Witness ==
    /\ ppc = "save"
    /\ pUnique = <<>>
    /\ pRuns = 1
    /\ pStats.skipped = 1
    /\ pStats.saved = 1
    /\ Len(store) = 2
    /\ store[1].source_url = PersistedA
    /\ store[2].source_url = StoryB

\* The place of a pass in the order exact-URL, canonical-URL, semantic
PassRank(pass) ==
    IF pass = "exact" THEN 1 ELSE IF pass = "canonical" THEN 2 ELSE 3

\* C15. In every run of the pipeline the dedup passes execute in the order
\* exact-URL dedup (quickDeduplicateByUrl), canonical-URL dedup
\* (deduplicateCandidatesByUrl), semantic dedup (deduplicateArticles), none
\* starting before an earlier one has finished.
C15_PassOrder ==
    \A i, j \in 1..Len(pPasses) :
        i < j => PassRank(pPasses[i]) < PassRank(pPasses[j])


\* The rows the articles table may hold before the first run; rows are
\* never deleted, so the table started empty when it holds none of them
StoredBefore == UNION {{choice[i] : i \in 1..Len(choice)} : choice \in StoreChoices}

StartedEmpty == \A i \in 1..Len(store) : store[i] \notin StoredBefore

\* C21. Starting from an empty store, after any sequence of
\* processNewsletters calls over any batches of emails, no two persisted
\* articles with a non-empty source_url have source_urls with the same
\* normalizeUrl result: a later batch with another tracking variant of a
\* persisted article adds no second record for it.
C21_OneRecordPerNormalizedUrl ==
    StartedEmpty =>
        \A i, j \in 1..Len(store) :
            (/\ i < j
             /\ store[i].source_url # ""
             /\ store[j].source_url # "")
            => NormalizedUrl[store[i].source_url] # NormalizedUrl[store[j].source_url]

(***************************************************************************)
(* resolveTrackingUrl and normalizeUrl on URLs of the three redirect       *)
(* shapes, and on strings of no shape; each is applied to the input and    *)
(* then to its own result.                                                 *)
(***************************************************************************)

\* Destinations as they are embedded in a redirect URL: percent-encoded, not
\* encoded, with an escape that cannot be decoded, and a destination that
\* is itself a redirect URL (encoded twice inside)
DestEncoded == "https%3A%2F%2Fa.com%2Fx"
DestRaw == "https://a.com/x"
DestBroken == "https%3A%2F%2Fa.com%2F%ZZ"
DestRedirect == "https%3A%2F%2Fr.co%2F%3Furl%3Dhttps%253A%252F%252Fa.com%252Fx"

DestChoices == {DestEncoded, DestRaw, DestBroken, DestRedirect}

\* Whether decodeURIComponent accepts the embedded destination
Decodable == [dest \in DestChoices |-> dest # DestBroken]

\* A URL of a shape around a destination, with the shape it was written in
ResolveCase(shape, url, dest) == [shape |-> shape, url |-> url, dest |-> dest]

TrackingCases ==
    {ResolveCase("tracking", "https://tracking.tldrnewsletter.com/CL0/" \o dest, dest) :
        dest \in DestChoices}

SubstackCases ==
    {ResolveCase("substack", "https://x.substack.com/redirect?" \o name \o "=" \o dest, dest) :
        name \in {"url", "r"}, dest \in DestChoices}

GenericCases ==
    {ResolveCase("generic", "https://r.co/go?" \o redirectParams[k] \o "=" \o dest, dest) :
        k \in 1..Len(redirectParams), dest \in DestChoices}

\* Strings of no redirect shape: no URL at all, a plain article URL, a
\* tracking host with no embedded destination, a substack post, a redirect
\* parameter whose value does not start with http, and an unknown parameter
ShapelessCases ==
    {ResolveCase("none", url, "") :
        url \in {"", "not a url", "https://a.com/x?q=1",
                 "https://tracking.tldrnewsletter.com/CL0/plain",
                 "https://x.substack.com/p/post?s=1",
                 "https://r.co/go?url=ftp%3A%2F%2Fa.com",
                 "https://r.co/go?next=https%3A%2F%2Fa.com"}}

ResolveCases == TrackingCases \cup SubstackCases \cup GenericCases \cup ShapelessCases

ResolveInputs ==
    /\ rIn \in {c.url : c \in ResolveCases}
    /\ rOut = NoString
    /\ rAgain = NoString
    /\ nOut = NoString
    /\ nAgain = NoString
    /\ rpc = "input"

\* resolveTrackingUrl(rIn) and normalizeUrl(rIn) return
Resolve ==
    /\ rpc = "input"
    /\ rOut' = resolveTrackingUrl(rIn)
    /\ nOut' = normalizeUrl(rIn)
    /\ rpc' = "once"
    /\ UNCHANGED <<rIn, rAgain, nAgain>>
    /\ UNCHANGED <<regVars, canonVars, dedupVars, semVars, cosVars, tldrVars, quickVars,
                   pipeVars>>

\* Each function applied to its own result
ResolveAgain ==
    /\ rpc = "once"
    /\ rAgain' = resolveTrackingUrl(rOut)
    /\ nAgain' = normalizeUrl(nOut)
    /\ rpc' = "twice"
    /\ UNCHANGED <<rIn, rOut, nOut>>
    /\ UNCHANGED <<regVars, canonVars, dedupVars, semVars, cosVars, tldrVars, quickVars,
                   pipeVars>>

ResolveInit ==
    /\ ResolveInputs
    /\ RegInit /\ CanonIdle /\ DedupIdle /\ SemIdle
    /\ CosIdle /\ TldrIdle /\ QuickIdle /\ PipeIdle

ResolveNext == Resolve \/ ResolveAgain

SpecResolve == ResolveInit /\ [][ResolveNext]_vars

\* C22. resolveTrackingUrl and normalizeUrl are idempotent: applied to its
\* own result each returns that result, for every string, also when the
\* embedded destination is itself a redirect URL with a url, redirect,
\* target, destination, goto or link parameter.
C22_ResolveAndNormalizeIdempotent ==
    rpc = "twice" => rAgain = rOut /\ nAgain = nOut

\* The cases the input was written as (one URL is written in one way)
CasesOf(url) == {c \in ResolveCases : c.url = url}

\* C23. resolveTrackingUrl never throws, and returns its input string
\* unchanged whenever no known redirect shape matches or the
\* percent-decoding of the embedded destination fails, for each of the
\* three shapes (tracking.tldrnewsletter.com path, substack redirect url or
\* r parameter, generic redirect parameter).
C23_UnresolvedUnchanged ==
    rpc # "input" =>
        /\ rOut # NoString
        /\ \A c \in CasesOf(rIn) :
              (c.shape = "none" \/ ~Decodable[c.dest]) => rOut = rIn

(***************************************************************************)
(* More claims about quickDeduplicateByUrl (checked under SpecQuick).      *)
(***************************************************************************)

\* What is left of a source_url once its letter case, its scheme, its query
\* string and the slashes at the end of its path are taken away: two
\* source_urls differ only in these when this is equal for both
PathIdentity(source_url) ==
    StripTrailingSlashes(StripQuery(StripScheme(ToLowerCase(source_url))))

\* C24. The key of quickDeduplicateByUrl is the source_url lowercased with
\* its scheme, the slashes at the end of its path and its whole query string
\* removed: two source_urls that differ only in letter case, in http versus
\* https, in slashes at the end of the path and in the presence or content
\* of a query string get the same key, so that only the first of them is
\* kept (as for 'https://a.com/x/?q=1' and 'http://a.com/x').
C24_KeyIgnoresCaseSchemeSlashesQuery ==
    qpc = "done" =>
        \A i, j \in 1..Len(qArticles) :
            (i < j /\ PathIdentity(qArticles[i].source_url)
                          = PathIdentity(qArticles[j].source_url))
            => /\ QuickKey(qArticles[i].source_url) = QuickKey(qArticles[j].source_url)
               /\ \A k \in 1..Len(qOut) : qOut[k] # qArticles[j]

(***************************************************************************)
(* More claims about the registry (checked under SpecRegistry).            *)
(***************************************************************************)

\* The whole substring after the first "@" of an address, empty when the
\* address has no "@"
AfterFirstAt(address) ==
    IF IndexOf(address, "@") = 0 THEN ""
    ELSE From(address, IndexOf(address, "@") + 1)

\* C25. findParser derives the domain as the whole substring after the
\* first '@' of the extracted address (empty when there is no '@'), so that
\* for an address with more than one '@' a domain match happens only if
\* that whole remainder is a registered domain pattern.
C25_DomainIsAllAfterFirstAt ==
    findAt >= 0 =>
        /\ FindDomain = AfterFirstAt(FindAddress)
        /\ (findResult.matched /\ findResult.matchType = "domain") =>
              \E i \in 1..findAt :
                  DomainIncludes(registrations[i], AfterFirstAt(FindAddress))

\* C30. The registry only grows: register appends one registration and
\* never changes or removes earlier ones, and findParser changes nothing.
\* Hence, for any address, once findParser returns a registration with
\* matchType 'exact_email', every later findParser for that address returns
\* the same registration and matchType whatever is registered afterwards;
\* and once it returns matched: true it never later returns matched: false
\* (a 'domain' result can later change only to an 'exact_email' result).
\* Step by step: a step that changes the registry is an append that leaves
\* the last call's record alone, and what findParser returns for a header
\* before and after it is related as said.
C30_RegistryOnlyGrows ==
    [][registrations' # registrations =>
          /\ Len(registrations') = Len(registrations) + 1
          /\ SubSeq(registrations', 1, Len(registrations)) = registrations
          /\ <<findHeader, findAt, findResult>>' = <<findHeader, findAt, findResult>>
          /\ \A header \in FromHeaders :
                 LET before == findParser(registrations, header)
                     after == findParser(registrations', header)
                 IN  /\ (before.matched /\ before.matchType = "exact_email")
                            => after = before
                     /\ before.matched
                            => /\ after.matched
                               /\ after # before
                                      => /\ before.matchType = "domain"
                                         /\ after.matchType = "exact_email"]_vars

\* findParser returned an exact match when one registration was there; two
\* registrations later, one of another parser listing the same address, the
\* call still returns that result
C30_Witness ==
    /\ findAt = 1
    /\ Len(registrations) = 3
    /\ findResult.matched
    /\ findResult.matchType = "exact_email"
    /\ \E i \in 2..3 :
          /\ SeqIncludes(registrations[i].emailPatterns, FindAddress)
          /\ registrations[i].parser # findResult.parser
    /\ findParser(registrations, findHeader) = findResult

(***************************************************************************)
(* A claim about the link filter of TLDRParser (checked under SpecTldr).   *)
(***************************************************************************)

\* The phrases of the denylist, in lower case
DenylistPhrases == WholePhrases \cup PrefixPhrases \cup InnerPhrases

\* The links of the cleaned document, before the filter on their text
LinksRead == ExecLinks(BodyRead, LowerText(BodyRead), 1)

\* C26. A link whose stripped text has between 10 and 300 characters is
\* discarded by the denylist only if the whole text equals a denylisted
\* phrase, case-insensitively (or is a number); a text that merely starts
\* with or contains a denylisted phrase, such as a headline starting with
\* 'Terms' or containing 'free for', is kept.
C26_DenylistWholeTextOnly ==
    tpc = "parsed" =>
        LET links == LinksRead
            surviving == SurvivingLinks
        IN  \A i \in 1..Len(links) :
                LET text == Trim(stripHtml(links[i].content))
                IN  (/\ Len(text) >= 10
                     /\ Len(text) <= 300
                     /\ LowerText(text) \notin DenylistPhrases
                     /\ ~AllDigits(text))
                    => \E k \in 1..Len(surviving) :
                           surviving[k].position = links[i].position

(***************************************************************************)
(* A claim about the counters of processNewsletters (checked under         *)
(* SpecPipeline).                                                          *)
(***************************************************************************)

\* processNewsletters has returned its counters
CountersReturned == ppc \in {"quick", "semantic", "summarize", "idle"} /\ pRuns > 0

\* The message the loop is at has a sender no parser is registered for
AtUnroutedMessage ==
    /\ ppc = "collect"
    /\ pEmails # <<>>
    /\ ~findParser(registrations, Head(pEmails).from).matched

\* C27. The counters of processNewsletters satisfy processed = saved +
\* skipped + deduped, where deduped is processed minus the number of
\* candidates deduplicateCandidatesByUrl returned (while the save loop runs,
\* the candidates it has not reached yet make up the difference); a message
\* whose sender matches no parser adds nothing to any counter and does not
\* stop the remaining messages of the batch from being processed.
C27_CountersAddUp ==
    /\ [](/\ pStats.processed
                = pStats.saved + pStats.skipped + pStats.deduped + Len(pUnique)
          /\ CountersReturned =>
                /\ pStats.processed = pStats.saved + pStats.skipped + pStats.deduped
                /\ pStats.processed = Len(pCandidates)
                /\ pStats.deduped
                       = pStats.processed - Len(deduplicateCandidatesByUrl(pCandidates)))
    /\ [][AtUnroutedMessage =>
              /\ pCandidates' = pCandidates
              /\ pStats' = pStats
              /\ pEmails' = Tail(pEmails)
              /\ ppc' = "collect"]_vars

\* A run over two issues with three candidates returned: one was a second
\* link to a story of the batch, one was persisted already, one was saved
C27_Witness ==
    /\ CountersReturned
    /\ pStats = [processed |-> 3, saved |-> 1, skipped |-> 1, deduped |-> 1]

(***************************************************************************)
(* More claims about deduplicateArticles (checked under SpecSemantic).     *)
(***************************************************************************)

\* The duplicate groups that hold article i, and the places of
\* uniqueArticles that hold it
GroupsHolding(i) ==
    {g \in 1..Len(sResult.duplicateGroups) : i \in Ids(sResult.duplicateGroups[g])}

PlacesInUnique(i) ==
    {k \in 1..Len(sResult.uniqueArticles) : sResult.uniqueArticles[k] = sArticles[i]}

\* The sum over the duplicate groups from the g-th on of (group size - 1)
RECURSIVE ExtraMembers(_, _)
ExtraMembers(groups, g) ==
    IF g > Len(groups) THEN 0
    ELSE Len(groups[g]) - 1 + ExtraMembers(groups, g + 1)

\* C28. deduplicateArticles partitions its input: every input article
\* belongs to exactly one similarity group (one duplicate group, or a group
\* of its own); uniqueArticles holds exactly one article per group;
\* totalArticles equals the input length; removedCount equals totalArticles
\* minus the length of uniqueArticles and equals the sum over
\* duplicateGroups of (group size - 1); the first element of each duplicate
\* group is in uniqueArticles and no other element of it is.
C28_ResultPartitionsInput ==
    (spc = "done" /\ ~sResult.threw) =>
        /\ \A i \in 1..Len(sArticles) :
              /\ Cardinality(GroupsHolding(i)) <= 1
              /\ GroupsHolding(i) = {} => Cardinality(PlacesInUnique(i)) = 1
              /\ Cardinality(PlacesInUnique(i)) <= 1
        /\ \A k \in 1..Len(sResult.uniqueArticles) :
              \E i \in 1..Len(sArticles) : sResult.uniqueArticles[k] = sArticles[i]
        /\ Len(sResult.uniqueArticles)
               = Len(sResult.duplicateGroups)
                 + Cardinality({i \in 1..Len(sArticles) : GroupsHolding(i) = {}})
        /\ sResult.totalArticles = Len(sArticles)
        /\ sResult.removedCount = sResult.totalArticles - Len(sResult.uniqueArticles)
        /\ sResult.removedCount = ExtraMembers(sResult.duplicateGroups, 1)
        /\ \A g \in 1..Len(sResult.duplicateGroups) :
              LET group == sResult.duplicateGroups[g]
              IN  /\ Cardinality(Ids(group)) = Len(group)
                  /\ \A m \in 1..Len(group) :
                        /\ group[m] = sArticles[group[m].id]
                        /\ Cardinality(PlacesInUnique(group[m].id))
                               = IF m = 1 THEN 1 ELSE 0

\* Three articles, the first and the third in one duplicate group and the
\* second on its own: two unique articles, one removed
C28_Witness ==
    /\ Deduplicated
    /\ sEmbeddings = <<EmbB, EmbZero, EmbC>>
    /\ Len(sResult.duplicateGroups) = 1
    /\ Ids(sResult.duplicateGroups[1]) = {1, 3}
    /\ Len(sResult.uniqueArticles) = 2
    /\ sResult.totalArticles = 3
    /\ sResult.removedCount = 1

\* C29. After deduplicateArticles, any two distinct articles in
\* uniqueArticles have cosine similarity strictly below 0.85, given one
\* embedding per input article.
C29_UniqueArticlesPairwiseDissimilar ==
    Deduplicated =>
        \A k, m \in 1..Len(sResult.uniqueArticles) :
            k # m => ~SimilarPair(sResult.uniqueArticles[k].id,
                                  sResult.uniqueArticles[m].id)

\* The first and the third article are the same story and the second is
\* another one: the two kept articles have similarity 1/2
C29_Witness ==
    /\ Deduplicated
    /\ sEmbeddings = <<EmbA, EmbC, EmbA>>
    /\ Len(sResult.uniqueArticles) = 2
    /\ SimilarPair(1, 3)
    /\ ~SimilarPair(sResult.uniqueArticles[1].id, sResult.uniqueArticles[2].id)
=============================================================================
